---- MODULE Spec2Model ----
(***************************************************************************)
(* Model of the file-serving subsystem of mcp-z/server: the name codec,    *)
(* the store path resolver, the reservation service, the buffered writer,  *)
(* the URI resolver and the HTTP retrieval endpoint.                       *)
(*                                                                         *)
(* A JavaScript string is a sequence of one-character strings, so that     *)
(* indexOf, startsWith, substring and path normalisation are computed      *)
(* character by character, as the code computes them.                      *)
(***************************************************************************)
EXTENDS Integers, Sequences, FiniteSets, TLC

VARIABLES fsDirs, fsFiles, rsv, http, pure

vars == <<fsDirs, fsFiles, rsv, http, pure>>

(***************************************************************************)
(* Bounds of the model.                                                    *)
(***************************************************************************)
\* longest identifier and original filename given to the name codec
MaxCodecLen == 2
\* longest stored name given to parseStoredName on its own
MaxStoredLen == 4
\* longest delimiter given to the name codec
MaxDelimLen == 2
\* most tokens a store location given to the path resolver is built from
MaxUriParts == 3
\* largest port of an HTTP transport descriptor
MaxPort == 11
\* most path segments of a requested filename
MaxReqSegs == 3

(***************************************************************************)
(* JavaScript strings.                                                     *)
(***************************************************************************)
StrUpTo(A, n) == UNION {[1..k -> A] : k \in 0..n}

Min(S) == CHOOSE x \in S : \A y \in S : x <= y

Max(S) == CHOOSE x \in S : \A y \in S : x >= y

\* the 0-based positions at which d occurs in s
Occurrences(s, d) == {i \in 0..(Len(s) - Len(d)) : SubSeq(s, i + 1, i + Len(d)) = d}

\* String.prototype.indexOf: the first 0-based position of d in s, or -1
IndexOf(s, d) == IF Occurrences(s, d) = {} THEN -1 ELSE Min(Occurrences(s, d))

\* String.prototype.lastIndexOf
LastIndexOf(s, d) == IF Occurrences(s, d) = {} THEN -1 ELSE Max(Occurrences(s, d))

\* String.prototype.includes
Includes(s, d) == IndexOf(s, d) # -1

\* String.prototype.startsWith
StartsWith(s, p) == Len(p) <= Len(s) /\ SubSeq(s, 1, Len(p)) = p

\* String.prototype.substring(from, to), 0-based, to exclusive
Substring(s, from, to) == SubSeq(s, from + 1, to)

\* String.prototype.slice(from)
SliceFrom(s, from) == SubSeq(s, from + 1, Len(s))

(***************************************************************************)
(* The name codec.                                                         *)
(***************************************************************************)
DEFAULT_DELIMITER == <<"~">>

formatStoredName(id, originalFilename, delimiter) == id \o delimiter \o originalFilename

\* a parser that splits at the last occurrence of the delimiter
parseStoredNameLast(storedName, delimiter) ==
    LET index == LastIndexOf(storedName, delimiter)
    IN  IF index = -1
        THEN [id |-> storedName, filename |-> storedName]
        ELSE [id |-> Substring(storedName, 0, index),
              filename |-> SliceFrom(storedName, index + Len(delimiter))]

\* a parser that rejects a stored name without delimiter
parseStoredNameStrict(storedName, delimiter) ==
    LET index == IndexOf(storedName, delimiter)
    IN  IF index = -1
        THEN [error |-> "NoDelimiter"]
        ELSE [id |-> Substring(storedName, 0, index),
              filename |-> SliceFrom(storedName, index + Len(delimiter))]

parseStoredName(storedName, delimiter) ==
    LET index == IndexOf(storedName, delimiter)
    IN  IF index = -1
        THEN [id |-> storedName, filename |-> storedName]
        ELSE [id |-> Substring(storedName, 0, index),
              filename |-> SliceFrom(storedName, index + Len(delimiter))]

(***************************************************************************)
(* node:path (posix): normalize, join and resolve, segment by segment.     *)
(***************************************************************************)
\* the value of a parameter or property that was not given
Undefined == <<"undefined">>

\* JavaScript truthiness of a string-or-undefined value
Falsy(x) == x = Undefined \/ x = <<>>

\* process.cwd()
Cwd == <<"/", "w">>

RECURSIVE Split(_)
\* the segments of a path between its "/" separators (the rest of the text
\* is bound as a value before the recursion, here and in the operators below)
Split(s) ==
    IF IndexOf(s, <<"/">>) = -1
    THEN <<s>>
    ELSE <<Substring(s, 0, IndexOf(s, <<"/">>))>>
         \o (CHOOSE segs \in {Split(rest) : rest \in {SliceFrom(s, IndexOf(s, <<"/">>) + 1)}} : TRUE)

RECURSIVE JoinSegs(_)
JoinSegs(segs) ==
    IF segs = <<>> THEN <<>>
    ELSE IF Len(segs) = 1 THEN segs[1]
    ELSE segs[1] \o <<"/">> \o (CHOOSE text \in {JoinSegs(rest) : rest \in {Tail(segs)}} : TRUE)

RECURSIVE NormFold(_, _, _)
\* normalizeString: drop "" and ".", let ".." remove the segment before it
NormFold(segs, res, allowAboveRoot) ==
    IF segs = <<>> THEN res
    ELSE LET h == Head(segs)
             next == IF h = <<>> \/ h = <<".">> THEN res
                     ELSE IF h = <<".", ".">>
                          THEN IF res # <<>> /\ res[Len(res)] # <<".", ".">>
                               THEN SubSeq(res, 1, Len(res) - 1)
                               ELSE IF allowAboveRoot THEN Append(res, h) ELSE res
                          ELSE Append(res, h)
         IN  CHOOSE out \in {NormFold(rest, acc, allowAboveRoot) :
                                rest \in {Tail(segs)}, acc \in {next}} : TRUE

normalizeString(path, allowAboveRoot) == JoinSegs(NormFold(Split(path), <<>>, allowAboveRoot))

\* path.normalize: keeps a trailing separator
Normalize(path) ==
    IF path = <<>> THEN <<".">>
    ELSE LET isAbsolute == path[1] = "/"
             trailingSeparator == path[Len(path)] = "/"
             body == normalizeString(path, ~isAbsolute)
         IN  IF body = <<>>
             THEN IF isAbsolute THEN <<"/">>
                  ELSE IF trailingSeparator THEN <<".", "/">> ELSE <<".">>
             ELSE (IF isAbsolute THEN <<"/">> ELSE <<>>) \o body
                  \o (IF trailingSeparator THEN <<"/">> ELSE <<>>)

\* path.join(a, b)
Join(a, b) ==
    IF a = <<>> /\ b = <<>> THEN <<".">>
    ELSE IF b = <<>> THEN Normalize(a)
    ELSE IF a = <<>> THEN Normalize(b)
    ELSE Normalize(a \o <<"/">> \o b)

\* path.resolve(p): absolute, normalised, without trailing separator
Resolve(p) ==
    LET full == IF p = <<>> THEN Cwd \o <<"/">>
                ELSE IF p[1] = "/" THEN p \o <<"/">>
                ELSE Cwd \o <<"/">> \o p \o <<"/">>
    IN  <<"/">> \o normalizeString(full, FALSE)

(***************************************************************************)
(* The store path resolver.                                                *)
(***************************************************************************)
FILE_URI_PREFIX == <<"f", "i", "l", "e", ":", "/", "/">>

SchemeSep == <<":", "/", "/">>

\* a resolver that looks for "://" before it looks for the file:// prefix
resolveResourceStorePathSchemeFirst(resourceStoreUri) ==
    IF Falsy(resourceStoreUri)
    THEN [ok |-> FALSE, error |-> "RequiresResourceStoreUri"]
    ELSE IF Includes(SliceFrom(resourceStoreUri, Len(FILE_URI_PREFIX)), SchemeSep)
            \/ (~StartsWith(resourceStoreUri, FILE_URI_PREFIX) /\ Includes(resourceStoreUri, SchemeSep))
    THEN [ok |-> FALSE, error |-> "UnsupportedScheme"]
    ELSE IF StartsWith(resourceStoreUri, FILE_URI_PREFIX)
    THEN [ok |-> TRUE, path |-> Resolve(SliceFrom(resourceStoreUri, Len(FILE_URI_PREFIX)))]
    ELSE [ok |-> TRUE, path |-> Resolve(resourceStoreUri)]

resolveResourceStorePath(resourceStoreUri) ==
    IF Falsy(resourceStoreUri)
    THEN [ok |-> FALSE, error |-> "RequiresResourceStoreUri"]
    ELSE IF StartsWith(resourceStoreUri, FILE_URI_PREFIX)
    THEN [ok |-> TRUE, path |-> Resolve(SliceFrom(resourceStoreUri, Len(FILE_URI_PREFIX)))]
    ELSE IF Includes(resourceStoreUri, SchemeSep)
    THEN [ok |-> FALSE, error |-> "UnsupportedScheme"]
    ELSE [ok |-> TRUE, path |-> Resolve(resourceStoreUri)]

(***************************************************************************)
(* The URI resolver.                                                       *)
(***************************************************************************)
\* an optional property of a configuration object
Prop(obj, name) == IF name \in DOMAIN obj THEN obj[name] ELSE Undefined

DigitChars == <<"0", "1", "2", "3", "4", "5", "6", "7", "8", "9">>

RECURSIVE NumberToString(_)
\* the decimal digits a template literal gives a number
NumberToString(n) ==
    IF n < 10 THEN <<DigitChars[n + 1]>>
    ELSE NumberToString(n \div 10) \o <<DigitChars[(n % 10) + 1]>>

LocalhostPrefix == <<"h", "t", "t", "p", ":", "/", "/", "l", "o", "c", "a", "l", "h", "o", "s", "t", ":">>

DefaultEndpoint == <<"/", "f", "i", "l", "e", "s">>

\* transport.port is absent or 0
NoPort(transport) == "port" \notin DOMAIN transport \/ transport.port = 0

\* a URI resolver that tests the base URL and the endpoint with ?? instead of ||
getFileUriNullish(storedFilename, transport, config) ==
    IF transport.type = "stdio" \/ transport.type = "undefined"
    THEN LET outputDir == resolveResourceStorePath(Prop(config, "resourceStoreUri"))
         IN  IF ~outputDir.ok THEN outputDir
             ELSE [ok |-> TRUE,
                   uri |-> FILE_URI_PREFIX \o Resolve(Join(outputDir.path, storedFilename))]
    ELSE IF "baseUrl" \notin DOMAIN config /\ "port" \notin DOMAIN transport
    THEN [ok |-> FALSE, error |-> "RequiresBaseUrlOrPort"]
    ELSE LET base == IF "baseUrl" \in DOMAIN config THEN config.baseUrl
                     ELSE LocalhostPrefix \o NumberToString(transport.port)
             endpoint == IF "endpoint" \in DOMAIN config THEN config.endpoint
                         ELSE DefaultEndpoint
         IN  [ok |-> TRUE, uri |-> base \o endpoint \o <<"/">> \o storedFilename]

getFileUri(storedFilename, transport, config) ==
    IF transport.type = "stdio" \/ transport.type = "undefined"
    THEN LET outputDir == resolveResourceStorePath(Prop(config, "resourceStoreUri"))
         IN  IF ~outputDir.ok THEN outputDir
             ELSE [ok |-> TRUE,
                   uri |-> FILE_URI_PREFIX \o Resolve(Join(outputDir.path, storedFilename))]
    ELSE IF Falsy(Prop(config, "baseUrl")) /\ NoPort(transport)
    THEN [ok |-> FALSE, error |-> "RequiresBaseUrlOrPort"]
    ELSE LET base == IF ~Falsy(Prop(config, "baseUrl")) THEN config.baseUrl
                     ELSE LocalhostPrefix \o NumberToString(transport.port)
             endpoint == IF ~Falsy(Prop(config, "endpoint")) THEN config.endpoint
                         ELSE DefaultEndpoint
         IN  [ok |-> TRUE, uri |-> base \o endpoint \o <<"/">> \o storedFilename]

(***************************************************************************)
(* The filesystem: fsDirs is the set of directories, fsFiles maps the path *)
(* of every regular file to its bytes and whether it can be read.  Paths   *)
(* are absolute and normalised, without trailing separator.                *)
(***************************************************************************)
HasTrailing(path) == Len(path) > 1 /\ path[Len(path)] = "/"

\* a path without its trailing separator
StripTrailing(path) == IF HasTrailing(path) THEN SubSeq(path, 1, Len(path) - 1) ELSE path

\* an existence check that sees regular files only
existsSyncFilesOnly(filePath, dirs, files) == filePath \in DOMAIN files

\* fs.existsSync: a name with trailing separator exists only as a directory
existsSync(filePath, dirs, files) ==
    IF HasTrailing(filePath)
    THEN StripTrailing(filePath) \in dirs
    ELSE filePath \in dirs \/ filePath \in DOMAIN files

\* fs.readFileSync: the bytes of a readable regular file, or an exception
readFileSync(filePath, files) ==
    IF ~HasTrailing(filePath) /\ filePath \in DOMAIN files /\ files[filePath].readable
    THEN [ok |-> TRUE, data |-> files[filePath].data]
    ELSE [ok |-> FALSE, error |-> <<"cannot open '">> \o filePath \o <<"'">>]

\* the non-empty segments of a path
NonEmptySegs(path) == SelectSeq(Split(path), LAMBDA seg : seg # <<>>)

\* a directory and all the directories above it
AncestorsAndSelf(path) ==
    {<<"/">> \o JoinSegs(SubSeq(NonEmptySegs(path), 1, k)) : k \in 0..Len(NonEmptySegs(path))}

\* the directory a path lies in
Dirname(path) ==
    <<"/">> \o JoinSegs(SubSeq(NonEmptySegs(path), 1, Len(NonEmptySegs(path)) - 1))

\* a mkdir that reports success and makes nothing
mkdirRecursiveNothing(dir, dirs, files) == [ok |-> TRUE, dirs |-> dirs]

\* fs.promises.mkdir(dir, {recursive: true}): creates the directory and its
\* missing parents, accepts an existing directory, fails on a regular file in
\* the way
mkdirRecursive(dir, dirs, files) ==
    IF \E a \in AncestorsAndSelf(dir) : a \in DOMAIN files
    THEN [ok |-> FALSE, dirs |-> dirs]
    ELSE [ok |-> TRUE, dirs |-> dirs \cup AncestorsAndSelf(dir)]

\* opening a file for writing (flag 'w') creates or truncates it; it fails on
\* a directory, on a name with trailing separator and in a missing directory
openForWrite(path, dirs, files) ==
    IF HasTrailing(path) \/ path \in dirs \/ Dirname(path) \notin dirs
    THEN [ok |-> FALSE, files |-> files,
          error |-> [kind |-> IF Dirname(StripTrailing(path)) \notin dirs THEN "ENOENT" ELSE "EISDIR",
                     path |-> path]]
    ELSE [ok |-> TRUE,
          files |-> [q \in DOMAIN files \cup {path} |->
                        IF q = path THEN [data |-> <<>>, readable |-> TRUE] ELSE files[q]]]

\* the byte of a hole in a file
NulByte == "\\0"

\* a write of chunk at a byte offset of a file: bytes there are replaced, the
\* file grows as needed and a gap before the offset reads as NUL bytes
pwrite(data, offset, chunk) ==
    [k \in 1..Max({Len(data), offset + Len(chunk)}) |->
        IF k > offset /\ k <= offset + Len(chunk) THEN chunk[k - offset]
        ELSE IF k <= Len(data) THEN data[k]
        ELSE NulByte]

\* the directories mkdir(dir, {recursive: true}) has still to create
missingDirs(dir, dirs) == AncestorsAndSelf(dir) \ dirs

\* the topmost of them
topmostMissing(dir, dirs) ==
    CHOOSE a \in missingDirs(dir, dirs) : \A b \in missingDirs(dir, dirs) : Len(a) <= Len(b)

\* a mkdir that gives up when the directory was made by someone else
onExistsFail(isDirectory) == "failed"

\* mkdir(dir, {recursive: true}) finds that the directory it is about to
\* make exists already: it goes on when that is a directory
onExists(isDirectory) == IF isDirectory THEN "probe" ELSE "failed"

(***************************************************************************)
(* The reservation service and the buffered writer.                        *)
(***************************************************************************)
maxAttempts == 100

\* the loop of generateValidatedId continues
mayAttemptOneMore(attempts) == attempts <= maxAttempts

mayAttempt(attempts) == attempts < maxAttempts

\* every generated id is accepted
idAcceptedAlways(id, delimiter) == TRUE

\* the generated id is accepted
idAccepted(id, delimiter) == ~Includes(id, delimiter)

\* config.delimiter || DEFAULT_DELIMITER
delimiterOfFalsy(config) ==
    IF "delimiter" \in DOMAIN config /\ config.delimiter # <<>>
    THEN config.delimiter ELSE DEFAULT_DELIMITER

\* config.delimiter ?? DEFAULT_DELIMITER
delimiterOf(config) == IF "delimiter" \in DOMAIN config THEN config.delimiter ELSE DEFAULT_DELIMITER

\* a reserveFile that goes on to open the file
afterReserveOpens(op) == "open"

\* where a call stands once the reservation is made: reserveFile returns it,
\* writeFile goes on to fsWriteFile
afterReserve(op) == IF op = "reserveFile" THEN "returned" ELSE "open"

\* a reservation whose stored name leaves the id out
reservationOfNoId(id, originalFilename, delimiter, outputDir) ==
    [id |-> id,
     storedName |-> delimiter \o originalFilename,
     fullPath |-> Join(outputDir, delimiter \o originalFilename)]

\* a writeFile that wraps the error of the write in one of its own
rejectionWrapped(error) == [kind |-> "WriteFailed", cause |-> error]

\* what the caller of writeFile gets when the awaited fsWriteFile rejects:
\* writeFile has no catch, so it is the error of the write itself
rejection(error) == error

\* the reservation reserveFile returns
reservationOf(id, originalFilename, delimiter, outputDir) ==
    [id |-> id,
     storedName |-> formatStoredName(id, originalFilename, delimiter),
     fullPath |-> Join(outputDir, formatStoredName(id, originalFilename, delimiter))]

(***************************************************************************)
(* The retrieval endpoint: the handler of GET /:filename.                  *)
(***************************************************************************)
\* a lone surrogate: a UTF-16 code unit that has no percent-encoding
LoneSurrogate == "\\uD800"

\* encodeURIComponent on the characters of the model
EncodeChar(c) ==
    IF c = "/" THEN <<"%", "2", "F">>
    ELSE IF c = " " THEN <<"%", "2", "0">>
    ELSE <<c>>

RECURSIVE encodeURIComponent(_)
encodeURIComponent(str) ==
    IF str = <<>> THEN <<>> ELSE EncodeChar(Head(str)) \o encodeURIComponent(Tail(str))

\* encodeURIComponent throws URIError on a string with a lone surrogate
Encodable(str) == \A k \in 1..Len(str) : str[k] # LoneSurrogate

\* a response without headers; existsChecked and read record the path the
\* handler gave to fs.existsSync and to fs.readFileSync
Response(status, body) ==
    [status |-> status, body |-> body, contentType |-> Undefined,
     contentDisposition |-> Undefined, existsChecked |-> Undefined, read |-> Undefined]

\* the contentType option: a fixed value, a function of the stored filename,
\* or a function that throws
ContentTypeOf(option, filename) ==
    IF option = "static" THEN [ok |-> TRUE, value |-> <<"static">>]
    ELSE IF option = "function" THEN [ok |-> TRUE, value |-> <<"type-of:">> \o filename]
    ELSE [ok |-> FALSE, error |-> <<"no type for ">> \o filename]

\* a catch clause that sends the message of the error
catchErrorLeaky(error) == Response(500, error)

\* the catch clause of the handler
catchError(error) == Response(500, <<"Internal server error">>)

\* the stored name itself is put in the Content-Disposition header
dispositionFilenameStored(filename, delimiter) == filename

\* the filename the handler puts in the Content-Disposition header
dispositionFilename(filename, delimiter) == parseStoredName(filename, delimiter).filename

\* a guard that never denies
passesGuardAlways(filePath, resolvedStorageDir) == TRUE

\* the traversal guard of the handler: the joined path begins with the
\* characters of the store directory
passesGuard(filePath, resolvedStorageDir) == StartsWith(filePath, resolvedStorageDir)

\* the handler; router is [dir, delimiter, contentType, contentDisposition].
\* A header set before an exception stays on the 500 response.
handleGet(router, rawFilename, dirs, files) ==
    IF Falsy(rawFilename)
    THEN Response(400, <<"Bad request: filename parameter is required">>)
    ELSE LET filePath == Join(router.dir, rawFilename)
         IN  IF ~passesGuard(filePath, router.dir)
             THEN Response(403, <<"Access denied">>)
             ELSE IF ~existsSync(filePath, dirs, files)
             THEN [Response(404, <<"File not found">>) EXCEPT !.existsChecked = filePath]
             ELSE LET data == readFileSync(filePath, files)
                      originalFilename == dispositionFilename(rawFilename, router.delimiter)
                      type == ContentTypeOf(router.contentType, rawFilename)
                  IN  IF ~data.ok
                      THEN [catchError(data.error)
                                EXCEPT !.existsChecked = filePath, !.read = filePath]
                      ELSE IF ~type.ok
                      THEN [catchError(type.error)
                                EXCEPT !.existsChecked = filePath, !.read = filePath]
                      ELSE IF ~Encodable(originalFilename)
                      THEN [catchError(<<"URI malformed">>)
                                EXCEPT !.existsChecked = filePath, !.read = filePath,
                                       !.contentType = type.value]
                      ELSE [status |-> 200, body |-> data.data,
                            contentType |-> type.value,
                            contentDisposition |->
                                [disposition |-> router.contentDisposition,
                                 filename |-> encodeURIComponent(originalFilename)],
                            existsChecked |-> filePath, read |-> filePath]

\* createFileServingRouter: the options with their defaults applied and the
\* store directory resolved once
createFileServingRouter(config, options) ==
    [dir |-> resolveResourceStorePath(Prop(config, "resourceStoreUri")).path,
     delimiter |-> IF "delimiter" \in DOMAIN config THEN config.delimiter ELSE DEFAULT_DELIMITER,
     contentType |-> options.contentType,
     contentDisposition |-> IF "contentDisposition" \in DOMAIN options
                            THEN options.contentDisposition ELSE "attachment"]

(***************************************************************************)
(* Specification of the name codec: the inputs are drawn from bounded     *)
(* sets and the codec is applied to them.                                  *)
(***************************************************************************)
CodecChars == {"a", "~"}

CodecDelims == StrUpTo(CodecChars, MaxDelimLen)

Idle == [op |-> "none"]

\* the calls the codec is given: a pair to format and parse back, or a stored
\* name to parse
CodecCalls ==
    {[op |-> "roundtrip", done |-> FALSE, id |-> i, filename |-> f, delimiter |-> d] :
        i \in StrUpTo(CodecChars, MaxCodecLen), f \in StrUpTo(CodecChars, MaxCodecLen),
        d \in CodecDelims \ {<<>>}}
    \cup
    {[op |-> "parse", done |-> FALSE, storedName |-> s, delimiter |-> d] :
        s \in StrUpTo(CodecChars, MaxStoredLen), d \in CodecDelims}

InitCodec ==
    /\ fsDirs = {}
    /\ fsFiles = <<>>
    /\ rsv = Idle
    /\ http = Idle
    /\ pure \in CodecCalls

\* format an (id, filename) pair and parse the stored name back
FormatThenParse ==
    /\ pure.op = "roundtrip" /\ ~pure.done
    /\ pure' = [op |-> "roundtrip", done |-> TRUE, id |-> pure.id,
                filename |-> pure.filename, delimiter |-> pure.delimiter,
                storedName |-> formatStoredName(pure.id, pure.filename, pure.delimiter),
                parsed |-> parseStoredName(
                    formatStoredName(pure.id, pure.filename, pure.delimiter), pure.delimiter)]
    /\ UNCHANGED <<fsDirs, fsFiles, rsv, http>>

\* parse an arbitrary stored name
ParseName ==
    /\ pure.op = "parse" /\ ~pure.done
    /\ pure' = [op |-> "parse", done |-> TRUE, storedName |-> pure.storedName,
                delimiter |-> pure.delimiter,
                parsed |-> parseStoredName(pure.storedName, pure.delimiter)]
    /\ UNCHANGED <<fsDirs, fsFiles, rsv, http>>

NextCodec == FormatThenParse \/ ParseName

SpecCodec == InitCodec /\ [][NextCodec]_vars

(***************************************************************************)
(* Claims about the name codec.                                            *)
(***************************************************************************)
\* p is a prefix of s (stated without startsWith)
HasPrefix(s, p) == Len(p) <= Len(s) /\ \A k \in 1..Len(p) : s[k] = p[k]

\* d occurs in s as a substring (stated without indexOf)
OccursIn(d, s) == \E i \in 1..(Len(s) - Len(d) + 1) : SubSeq(s, i, i + Len(d) - 1) = d

\* C3: for every non-empty delimiter d, every identifier i that does not
\* contain d and every original filename f, parsing the formatted stored name
\* gives back exactly {id: i, filename: f}.
C3_RoundTrip ==
    (pure.op = "roundtrip" /\ pure.done /\ ~OccursIn(pure.delimiter, pure.id))
        => pure.parsed = [id |-> pure.id, filename |-> pure.filename]

\* C4: when a non-empty delimiter d occurs in the stored name s, the parser
\* splits at the leftmost occurrence: the id holds no occurrence of d,
\* id + d + filename is s, and the filename is the rest of s verbatim.
C4_FirstOccurrenceSplit ==
    (pure.op = "parse" /\ pure.done /\ pure.delimiter # <<>> /\ OccursIn(pure.delimiter, pure.storedName))
        => /\ DOMAIN pure.parsed = {"id", "filename"}
           /\ ~OccursIn(pure.delimiter, pure.parsed.id)
           /\ pure.parsed.id \o pure.delimiter \o pure.parsed.filename = pure.storedName
           /\ \A j \in 1..Len(pure.parsed.id) :
                SubSeq(pure.storedName, j, j + Len(pure.delimiter) - 1) # pure.delimiter
           /\ pure.parsed.filename =
                SubSeq(pure.storedName, Len(pure.parsed.id) + Len(pure.delimiter) + 1,
                       Len(pure.storedName))

\* a stored name with two occurrences of the delimiter has been parsed
C4_Witness ==
    /\ pure.op = "parse" /\ pure.done
    /\ pure.delimiter = <<"~">>
    /\ pure.storedName = <<"a", "~", "a", "~">>
    /\ pure.parsed.filename = <<"a", "~">>

\* C5: when the delimiter does not occur in the stored name s, the parser
\* raises no error and returns s as both id and filename.
C5_FallbackParsing ==
    (pure.op = "parse" /\ pure.done /\ ~OccursIn(pure.delimiter, pure.storedName))
        => pure.parsed = [id |-> pure.storedName, filename |-> pure.storedName]

\* a stored name without the delimiter has been parsed
C5_Witness ==
    /\ pure.op = "parse" /\ pure.done
    /\ pure.delimiter = <<"~">>
    /\ pure.storedName = <<"a", "a">>
    /\ pure.parsed.id = <<"a", "a">>

(***************************************************************************)
(* Specification of the store path resolver.                               *)
(***************************************************************************)
RECURSIVE Flatten(_)
Flatten(parts) == IF parts = <<>> THEN <<>> ELSE Head(parts) \o Flatten(Tail(parts))

UriTokens == {FILE_URI_PREFIX, SchemeSep, <<"h">>, <<"s">>, <<"/">>, <<".", ".">>}

\* the store locations given to the resolver: missing, empty, bare paths,
\* file:// URIs, other schemes, and "://" in every position
StoreLocations ==
    {Undefined} \cup {Flatten(parts) : parts \in StrUpTo(UriTokens, MaxUriParts)}

\* the filesystem the pure functions run beside
QuietDirs == {<<"/">>, <<"/", "s">>}

InitResolve ==
    /\ fsDirs = QuietDirs
    /\ fsFiles = <<>>
    /\ rsv = Idle
    /\ http = Idle
    /\ pure \in {[op |-> "resolve", done |-> FALSE, uri |-> u] : u \in StoreLocations}

ResolveStore ==
    /\ pure.op = "resolve" /\ ~pure.done
    /\ pure' = [op |-> "resolve", done |-> TRUE, uri |-> pure.uri,
                result |-> resolveResourceStorePath(pure.uri)]
    /\ UNCHANGED <<fsDirs, fsFiles, rsv, http>>

NextResolve == ResolveStore

SpecResolve == InitResolve /\ [][NextResolve]_vars

\* the "://" occurrences of u other than the one of a leading file://
OtherSchemeSeps(u) ==
    {i \in 1..(Len(u) - 2) :
        SubSeq(u, i, i + 2) = SchemeSep /\ ~(i = 5 /\ HasPrefix(u, FILE_URI_PREFIX))}

\* the location with a leading file:// stripped
Stripped(u) == IF HasPrefix(u, FILE_URI_PREFIX) THEN SubSeq(u, 8, Len(u)) ELSE u

\* the segments of the absolute path p names when taken against the working directory
SegmentsAgainstCwd(p) ==
    NormFold(IF p # <<>> /\ p[1] = "/" THEN Split(p) ELSE Split(Cwd) \o Split(p), <<>>, FALSE)

\* C10 as stated: the resolver fails exactly when the location is empty or
\* missing or contains a "scheme://" pattern other than a leading file://.
C10_FailsOnAnyOtherScheme ==
    (pure.op = "resolve" /\ pure.done)
        => (~pure.result.ok <=>
                (pure.uri = Undefined \/ pure.uri = <<>> \/ OtherSchemeSeps(pure.uri) # {}))

\* C10 (amended): the resolver fails exactly when the location is empty or
\* missing, or does not begin with file:// and contains "://"; otherwise it
\* returns the absolute path of the location (leading file:// stripped) taken
\* against the working directory, and the filesystem is left as it was.
C10_ResolveStorePath ==
    (pure.op = "resolve" /\ pure.done)
        => /\ ~pure.result.ok <=>
                \/ pure.uri = Undefined
                \/ pure.uri = <<>>
                \/ (~HasPrefix(pure.uri, FILE_URI_PREFIX) /\ OccursIn(SchemeSep, pure.uri))
           /\ pure.result.ok =>
                /\ pure.result.path[1] = "/"
                /\ pure.result.path = <<"/">> \o JoinSegs(SegmentsAgainstCwd(Stripped(pure.uri)))
           /\ fsDirs = QuietDirs /\ fsFiles = <<>>

\* a relative file:// location has been resolved against the working directory
C10_Witness ==
    /\ pure.op = "resolve" /\ pure.done
    /\ pure.uri = FILE_URI_PREFIX \o <<"s">>
    /\ pure.result.ok
    /\ pure.result.path = <<"/", "w", "/", "s">>

(***************************************************************************)
(* Specification of the URI resolver.                                      *)
(***************************************************************************)
NoTransport == [type |-> "undefined"]

Transports ==
    {NoTransport, [type |-> "stdio"], [type |-> "http"]}
    \cup {[type |-> t, port |-> n] : t \in {"stdio", "http"}, n \in 0..MaxPort}

ExampleBase == <<"h", ":", "/", "/", "x">>

UriConfigs ==
    {[resourceStoreUri |-> u] :
        u \in {FILE_URI_PREFIX \o <<"/", "s">>, <<"s">>, <<"h">> \o SchemeSep \o <<"s">>, <<>>}}

WithBaseUrl(cfgs) == cfgs \cup {c @@ [baseUrl |-> b] : c \in cfgs, b \in {<<>>, ExampleBase}}

WithEndpoint(cfgs) == cfgs \cup {c @@ [endpoint |-> e] : c \in cfgs, e \in {<<>>, <<"/", "e">>}}

UriNames == {<<"x">>, <<"i", "~", "x">>, <<".", ".", "/", "x">>}

InitUri ==
    /\ fsDirs = QuietDirs
    /\ fsFiles = <<>>
    /\ rsv = Idle
    /\ http = Idle
    /\ pure \in {[op |-> "uri", done |-> FALSE, name |-> n, transport |-> t, config |-> c] :
                    n \in UriNames, t \in Transports, c \in WithEndpoint(WithBaseUrl(UriConfigs))}

FileUri ==
    /\ pure.op = "uri" /\ ~pure.done
    /\ pure' = [op |-> "uri", done |-> TRUE, name |-> pure.name, transport |-> pure.transport,
                config |-> pure.config,
                result |-> getFileUri(pure.name, pure.transport, pure.config)]
    /\ UNCHANGED <<fsDirs, fsFiles, rsv, http>>

NextUri == FileUri

SpecUri == InitUri /\ [][NextUri]_vars

\* the transport descriptor is absent or of type 'stdio'
IsLocal(t) == t = NoTransport \/ t.type = "stdio"

\* the store location of the call is one the path resolver accepts
StoreAccepted(c) ==
    /\ c.resourceStoreUri # <<>>
    /\ HasPrefix(c.resourceStoreUri, FILE_URI_PREFIX) \/ ~OccursIn(SchemeSep, c.resourceStoreUri)

\* the absolute path of the store directory joined with the name
StorePathOf(c, n) ==
    <<"/">> \o JoinSegs(NormFold(SegmentsAgainstCwd(Stripped(c.resourceStoreUri)) \o Split(n), <<>>, FALSE))

\* C8 as stated: base is cfg.baseUrl if given, endpoint is cfg.endpoint if given.
C8_UriUsesGivenBaseAndEndpoint ==
    (pure.op = "uri" /\ pure.done /\ pure.transport.type = "http" /\ pure.result.ok)
        => pure.result.uri =
              (IF "baseUrl" \in DOMAIN pure.config THEN pure.config.baseUrl
               ELSE LocalhostPrefix \o NumberToString(pure.transport.port))
              \o (IF "endpoint" \in DOMAIN pure.config THEN pure.config.endpoint ELSE DefaultEndpoint)
              \o <<"/">> \o pure.name

\* C8 (amended): with no transport or a 'stdio' transport, and a store
\* location that resolves, the URI is file:// followed by the absolute store
\* path joined with the name, whatever baseUrl and endpoint are (when the
\* location does not resolve, the call fails); with an 'http' transport it is base + endpoint + '/' +
\* name, where base is cfg.baseUrl if given and not empty and otherwise
\* 'http://localhost:' + port, and endpoint is cfg.endpoint if given and not
\* empty and otherwise '/files'.
C8_UriBranching ==
    (pure.op = "uri" /\ pure.done)
        => /\ (IsLocal(pure.transport) /\ StoreAccepted(pure.config))
                => /\ pure.result.ok
                   /\ pure.result.uri = FILE_URI_PREFIX \o StorePathOf(pure.config, pure.name)
           /\ (IsLocal(pure.transport) /\ ~StoreAccepted(pure.config)) => ~pure.result.ok
           /\ (pure.transport.type = "http" /\ pure.result.ok)
                => /\ \/ ("baseUrl" \in DOMAIN pure.config /\ pure.config.baseUrl # <<>>)
                      \/ "port" \in DOMAIN pure.transport
                   /\ pure.result.uri =
                     (IF "baseUrl" \in DOMAIN pure.config /\ pure.config.baseUrl # <<>>
                      THEN pure.config.baseUrl
                      ELSE LocalhostPrefix \o NumberToString(pure.transport.port))
                     \o (IF "endpoint" \in DOMAIN pure.config /\ pure.config.endpoint # <<>>
                         THEN pure.config.endpoint ELSE DefaultEndpoint)
                     \o <<"/">> \o pure.name

\* an http URI has been built from the port and the default endpoint
C8_Witness ==
    /\ pure.op = "uri" /\ pure.done
    /\ pure.transport = [type |-> "http", port |-> 10]
    /\ DOMAIN pure.config = {"resourceStoreUri"}
    /\ pure.name = <<"x">>
    /\ pure.result.ok
    /\ pure.result.uri = LocalhostPrefix \o <<"1", "0">> \o DefaultEndpoint \o <<"/", "x">>

\* C9 as stated: with an HTTP transport the call fails exactly when no base
\* URL was supplied and the transport has no port.
C9_FailsOnlyWithoutBaseAndPort ==
    (pure.op = "uri" /\ pure.done /\ pure.transport.type = "http")
        => (~pure.result.ok <=>
                ("baseUrl" \notin DOMAIN pure.config /\ "port" \notin DOMAIN pure.transport))

\* C9 (amended): with an HTTP transport the call fails with the configuration
\* error exactly when the base URL is absent or empty and the port is absent
\* or 0; in every other case it returns a URI.
C9_HttpConfigurationError ==
    (pure.op = "uri" /\ pure.done /\ pure.transport.type = "http")
        => /\ ~pure.result.ok <=>
                /\ ("baseUrl" \notin DOMAIN pure.config \/ pure.config.baseUrl = <<>>)
                /\ ("port" \notin DOMAIN pure.transport \/ pure.transport.port = 0)
           /\ ~pure.result.ok => pure.result.error = "RequiresBaseUrlOrPort"
           /\ pure.result.ok => DOMAIN pure.result = {"ok", "uri"}

\* an HTTP transport without port and without base URL has been refused
C9_Witness ==
    /\ pure.op = "uri" /\ pure.done
    /\ pure.transport = [type |-> "http"]
    /\ "baseUrl" \notin DOMAIN pure.config
    /\ ~pure.result.ok

(***************************************************************************)
(* Specification of the retrieval endpoint: a router over the store /s     *)
(* and one request for each filename.                                      *)
(***************************************************************************)
StoreUri == FILE_URI_PREFIX \o <<"/", "s">>

Bytes(data) == [data |-> data, readable |-> TRUE]

\* the store /s with a subdirectory /s/s; beside it the directory /sx, whose
\* path begins with the characters of the store's path
ServedDirs == {<<"/">>, <<"/", "s">>, <<"/", "s", "/", "s">>, <<"/", "s", "x">>}

\* /s/x, /s/i~x, /s/i~ x, a file whose name ends in a lone surrogate and the
\* unreadable /s/l in the store; /sx/x and /x outside it
ServedFiles ==
    (<<"/", "s", "/", "x">> :> Bytes(<<"x-in-store">>))
    @@ (<<"/", "s", "/", "i", "~", "x">> :> Bytes(<<"ix-in-store">>))
    @@ (<<"/", "s", "/", "i", "~", " ", "x">> :> Bytes(<<"spaced-in-store">>))
    @@ (<<"/", "s", "/", "i", "~", LoneSurrogate>> :> Bytes(<<"surrogate-in-store">>))
    @@ (<<"/", "s", "/", "l">> :> [data |-> <<"locked">>, readable |-> FALSE])
    @@ (<<"/", "s", "x", "/", "x">> :> Bytes(<<"x-beside-store">>))
    @@ (<<"/", "x">> :> Bytes(<<"x-above-store">>))

ReqSegs ==
    {<<>>, <<".">>, <<".", ".">>, <<"s">>, <<"x">>, <<"s", "x">>, <<"i", "~", "x">>, <<"l">>,
     <<"i", "~", " ", "x">>, <<"i", "~", LoneSurrogate>>}

\* the decoded filename parameters: missing, empty, and every path of up to
\* MaxReqSegs segments ('..' segments, separators, a leading '/', ...)
ReqNames ==
    {Undefined} \cup {JoinSegs(segs) : segs \in StrUpTo(ReqSegs, MaxReqSegs)}

RouterConfigs == {[resourceStoreUri |-> StoreUri], [resourceStoreUri |-> StoreUri, delimiter |-> <<"x">>]}

RouterOptions ==
    {[contentType |-> t] : t \in {"static", "function", "throws"}}
    \cup {[contentType |-> t, contentDisposition |-> "inline"] : t \in {"static", "function", "throws"}}

InitGet ==
    /\ fsDirs = ServedDirs
    /\ fsFiles = ServedFiles
    /\ rsv = Idle
    /\ pure = Idle
    /\ http \in {[op |-> "get", done |-> FALSE, filename |-> n, config |-> c, options |-> o,
                  router |-> createFileServingRouter(c, o)] :
                    n \in ReqNames, c \in RouterConfigs, o \in RouterOptions}

\* the handler answers the request
HandleGet ==
    /\ http.op = "get" /\ ~http.done
    /\ http' = [op |-> "get", done |-> TRUE, filename |-> http.filename,
                config |-> http.config, options |-> http.options, router |-> http.router,
                res |-> handleGet(http.router, http.filename, fsDirs, fsFiles)]
    /\ UNCHANGED <<fsDirs, fsFiles, rsv, pure>>

NextGet == HandleGet

SpecGet == InitGet /\ [][NextGet]_vars

\* path is dir itself or a path-component-wise descendant of it
InsideStore(path, dir) ==
    /\ Len(NonEmptySegs(dir)) <= Len(NonEmptySegs(path))
    /\ SubSeq(NonEmptySegs(path), 1, Len(NonEmptySegs(dir))) = NonEmptySegs(dir)

\* the request carries a filename parameter
HasFilename == http.filename # Undefined /\ http.filename # <<>>

\* C1: containment: when the normalised join of the store directory and the
\* requested filename is neither the store directory nor a descendant of it,
\* the response is 403 or 404, never 200, and no file outside the store
\* directory is read.
C1_Containment ==
    (http.op = "get" /\ http.done /\ HasFilename
        /\ ~InsideStore(Join(http.router.dir, http.filename), http.router.dir))
        => /\ http.res.status \in {403, 404}
           /\ http.res.read = Undefined

\* C2: strict precedence of outcomes: no filename gives 400; otherwise a
\* resolved path outside the store gives 403; otherwise a path that does not
\* exist gives 404; otherwise the file is served (200, or 500 when serving
\* fails); and neither the existence check nor the read is done for a path
\* outside the store.
C2_Precedence ==
    (http.op = "get" /\ http.done)
        => IF ~HasFilename THEN http.res.status = 400
           ELSE IF ~InsideStore(Join(http.router.dir, http.filename), http.router.dir)
           THEN /\ http.res.status = 403
                /\ http.res.existsChecked = Undefined
                /\ http.res.read = Undefined
           ELSE IF ~existsSync(Join(http.router.dir, http.filename), fsDirs, fsFiles)
           THEN http.res.status = 404
           ELSE http.res.status \in {200, 500}

\* the path the handler resolves for the request
RequestedPath == Join(http.router.dir, http.filename)

\* serving the requested file raises an exception: it is a directory or
\* cannot be read, the content-type function throws, or the original filename
\* has no percent-encoding
ServingFails ==
    \/ RequestedPath \notin DOMAIN fsFiles
    \/ ~fsFiles[RequestedPath].readable
    \/ http.options.contentType = "throws"
    \/ \E k \in 1..Len(parseStoredName(http.filename, http.router.delimiter).filename) :
            parseStoredName(http.filename, http.router.delimiter).filename[k] = LoneSurrogate

\* C14: every request is answered with one of the statuses 400, 403, 404,
\* 200 and 500; a request whose file exists is answered 500 exactly when
\* serving raises an exception (read failure, throwing content-type function,
\* filename without percent-encoding), and every 500 response has the fixed
\* body 'Internal server error' and no Content-Disposition header.
C14_ErrorsBecomeFixed500 ==
    (http.op = "get" /\ http.done)
        => /\ http.res.status \in {400, 403, 404, 200, 500}
           /\ http.res.read # Undefined
                => /\ http.res.status \in {200, 500}
                   /\ ServingFails <=> http.res.status = 500
           /\ http.res.status = 500
                => /\ http.res.body = <<"Internal server error">>
                   /\ http.res.contentDisposition = Undefined

\* a stored file whose original filename is a lone surrogate was requested and
\* the answer is 500
C14_Witness ==
    /\ http.op = "get" /\ http.done
    /\ http.filename = <<"i", "~", LoneSurrogate>>
    /\ http.options.contentType = "static"
    /\ http.router.delimiter = <<"~">>
    /\ http.res.status = 500
    /\ http.res.read = <<"/", "s", "/", "i", "~", LoneSurrogate>>

C30_DirectoryRequest ==
    (http.op = "get" /\ http.done /\ HasFilename
        /\ StripTrailing(RequestedPath) \in fsDirs
        /\ InsideStore(RequestedPath, http.router.dir))
        => /\ http.res.status = 500
           /\ http.res.existsChecked = RequestedPath
           /\ http.res.read = RequestedPath
           /\ http.res.body = <<"Internal server error">>

\* the request for '.' resolved to the store directory and was answered 500
C30_Witness ==
    /\ http.op = "get" /\ http.done
    /\ http.filename = <<".">>
    /\ http.options.contentType = "function"
    /\ http.res.read = <<"/", "s">>
    /\ http.res.status = 500

(***************************************************************************)
(* Specification of the reservation service and the buffered writer: one   *)
(* call of reserveFile or writeFile, step by step.  rsv.pc is the position  *)
(* of the call; calls, badCalls and firstGood record what the id generator  *)
(* was asked and what it answered, before the filesystem the call found,    *)
(* opens how many times fsWriteFile was called.                             *)
(***************************************************************************)
\* the values a configured id generator may return
GenIds == {<<>>, <<"i">>, <<"~">>, <<"~", "~">>}

OrigNames == {<<"x">>, <<>>, <<"s", "/", "x">>, <<"/", ".", ".", "/", ".", ".", "/", "x">>}

Buffers == {<<>>, <<"h", "i">>}

StoreConfigs ==
    {[resourceStoreUri |-> u] : u \in {StoreUri, <<"s", "/", "s">>, <<"h">> \o SchemeSep \o <<"s">>}}
    \cup {[delimiter |-> <<"~">>]}

WithDelimiter(cfgs) ==
    cfgs \cup {c @@ [delimiter |-> d] : c \in cfgs, d \in {<<>>, <<"~", "~">>, <<"i">>}}

\* the filesystems a call may find: no store yet, a store with a file, and a
\* regular file where the store directory should be
InitialFilesystems ==
    {[dirs |-> {<<"/">>, <<"/", "w">>}, files |-> <<>>],
     [dirs |-> {<<"/">>, <<"/", "w">>, <<"/", "s">>},
      files |-> (<<"/", "s", "/", "i", "~", "x">> :> Bytes(<<"o", "l", "d">>))],
     [dirs |-> {<<"/">>, <<"/", "w">>}, files |-> (<<"/", "s">> :> Bytes(<<>>))]}

Init ==
    /\ \E fs \in InitialFilesystems : fsDirs = fs.dirs /\ fsFiles = fs.files
    /\ rsv = Idle
    /\ http = Idle
    /\ pure = Idle

\* the call is made: the delimiter and the store directory are resolved
\* (reserveFile up to its await of mkdir)
BeginCall ==
    /\ rsv = Idle
    /\ \E op \in {"reserveFile", "writeFile"}, f \in OrigNames,
          c \in WithDelimiter(StoreConfigs), b \in Buffers :
        /\ op = "reserveFile" => b = <<>>
        /\ LET outputDir == resolveResourceStorePath(Prop(c, "resourceStoreUri"))
               call == [op |-> op, originalFilename |-> f, config |-> c, buffer |-> b,
                        delimiter |-> delimiterOf(c), outputDir |-> Undefined,
                        attempts |-> 0, calls |-> 0, badCalls |-> 0, firstGood |-> Undefined,
                        result |-> Undefined, error |-> Undefined, written |-> 0,
                        before |-> [dirs |-> fsDirs, files |-> fsFiles], opens |-> 0,
                        pc |-> "mkdir"]
           IN  rsv' = IF outputDir.ok
                      THEN [call EXCEPT !.outputDir = outputDir.path]
                      ELSE [call EXCEPT !.pc = "failed", !.error = [kind |-> outputDir.error]]
    /\ UNCHANGED <<fsDirs, fsFiles, http, pure>>

\* await mkdir(outputDir, {recursive: true})
Mkdir ==
    /\ rsv.op # "none" /\ rsv.pc = "mkdir"
    /\ LET made == mkdirRecursive(rsv.outputDir, fsDirs, fsFiles)
       IN  /\ fsDirs' = made.dirs
           /\ rsv' = IF made.ok THEN [rsv EXCEPT !.pc = "generate"]
                     ELSE [rsv EXCEPT !.pc = "failed", !.error = [kind |-> "MkdirFailed"]]
    /\ UNCHANGED <<fsFiles, http, pure>>

\* one turn of the loop of generateValidatedId: the generator is called and
\* its value is accepted (the reservation is made) or counted as an attempt
GenerateId ==
    /\ rsv.op # "none" /\ rsv.pc = "generate"
    /\ mayAttempt(rsv.attempts)
    /\ \E id \in GenIds :
        LET asked == [rsv EXCEPT
                        !.calls = @ + 1,
                        !.badCalls = IF \E k \in 1..(Len(id) - Len(rsv.delimiter) + 1) :
                                            SubSeq(id, k, k + Len(rsv.delimiter) - 1) = rsv.delimiter
                                     THEN @ + 1 ELSE @,
                        !.firstGood = IF @ = Undefined
                                         /\ ~\E k \in 1..(Len(id) - Len(rsv.delimiter) + 1) :
                                              SubSeq(id, k, k + Len(rsv.delimiter) - 1) = rsv.delimiter
                                      THEN id ELSE @]
        IN  rsv' = IF idAccepted(id, rsv.delimiter)
                   THEN [asked EXCEPT
                            !.result = reservationOf(id, rsv.originalFilename, rsv.delimiter,
                                                     rsv.outputDir),
                            !.pc = afterReserve(rsv.op)]
                   ELSE [asked EXCEPT !.attempts = @ + 1]
    /\ UNCHANGED <<fsDirs, fsFiles, http, pure>>

\* the loop has ended without an accepted id: generateValidatedId throws
GenerateThrow ==
    /\ rsv.op # "none" /\ rsv.pc = "generate"
    /\ ~mayAttempt(rsv.attempts)
    /\ rsv' = [rsv EXCEPT !.pc = "failed",
                          !.error = [kind |-> "GenerationFailed", delimiter |-> rsv.delimiter,
                                     maxAttempts |-> maxAttempts]]
    /\ UNCHANGED <<fsDirs, fsFiles, http, pure>>

\* fsWriteFile(fullPath, buffer) opens the file: it is created or truncated
WriteOpen ==
    /\ rsv.op # "none" /\ rsv.pc = "open"
    /\ LET opened == openForWrite(rsv.result.fullPath, fsDirs, fsFiles)
       IN  /\ fsFiles' = opened.files
           /\ rsv' = IF ~opened.ok
                     THEN [rsv EXCEPT !.pc = "failed", !.error = rejection(opened.error),
                                      !.opens = @ + 1]
                     ELSE IF rsv.buffer = <<>> THEN [rsv EXCEPT !.pc = "returned", !.opens = @ + 1]
                     ELSE [rsv EXCEPT !.pc = "writing", !.opens = @ + 1]
    /\ UNCHANGED <<fsDirs, http, pure>>

\* fsWriteFile writes some of the bytes that are left; after the last ones
\* writeFile returns the reservation
WriteChunk ==
    /\ rsv.op # "none" /\ rsv.pc = "writing"
    /\ \E n \in 1..(Len(rsv.buffer) - rsv.written) :
        /\ fsFiles' = [fsFiles EXCEPT ![rsv.result.fullPath].data =
                            pwrite(@, rsv.written,
                                   SubSeq(rsv.buffer, rsv.written + 1, rsv.written + n))]
        /\ rsv' = [rsv EXCEPT !.written = @ + n,
                              !.pc = IF rsv.written + n = Len(rsv.buffer)
                                     THEN "returned" ELSE "writing"]
    /\ UNCHANGED <<fsDirs, http, pure>>

Next == BeginCall \/ Mkdir \/ GenerateId \/ GenerateThrow \/ WriteOpen \/ WriteChunk

Spec == Init /\ [][Next]_vars

\* the call has a reservation in hand (returned, or being written by writeFile)
HasReservation == rsv.op # "none" /\ rsv.pc \in {"returned", "open", "writing"}

\* C6: generation ceiling: the generator is never called more than 100
\* times; a call whose generator has returned only values that contain the
\* delimiter holds no reservation; and the call fails with the generation
\* error only after exactly 100 such values, the error naming the delimiter
\* and the ceiling.
C6_GenerationCeiling ==
    rsv.op # "none"
        => /\ rsv.calls <= 100
           /\ (rsv.badCalls = rsv.calls) => ~HasReservation
           /\ (rsv.pc = "generate" /\ rsv.calls = 100)
                => (ENABLED GenerateThrow /\ ~ENABLED GenerateId)
           /\ (rsv.pc = "failed" /\ rsv.error.kind = "GenerationFailed")
                => /\ rsv.calls = 100
                   /\ rsv.badCalls = 100
                   /\ rsv.error.delimiter = rsv.delimiter
                   /\ rsv.error.maxAttempts = 100

\* the generator has been called 100 times and the call has failed
C6_Witness ==
    /\ rsv.op = "writeFile"
    /\ rsv.pc = "failed"
    /\ rsv.error.kind = "GenerationFailed"
    /\ rsv.delimiter = <<"~">>
    /\ rsv.calls = 100

C13_ReserveWritesNothing ==
    (rsv.op = "reserveFile" /\ rsv.pc = "returned")
        => /\ fsFiles = rsv.before.files
           /\ rsv.result.fullPath \in DOMAIN fsFiles
                => rsv.result.fullPath \in DOMAIN rsv.before.files
           /\ rsv.before.dirs \subseteq fsDirs
           /\ \A d \in fsDirs \ rsv.before.dirs :
                InsideStore(rsv.outputDir, d)
           /\ rsv.outputDir \in fsDirs

\* reserveFile has returned after creating the store directory /w/s/s and
\* its parent, and no file is at fullPath
C13_Witness ==
    /\ rsv.op = "reserveFile" /\ rsv.pc = "returned"
    /\ rsv.outputDir = <<"/", "w", "/", "s", "/", "s">>
    /\ <<"/", "w", "/", "s">> \notin rsv.before.dirs
    /\ {<<"/", "w", "/", "s">>, <<"/", "w", "/", "s", "/", "s">>} \subseteq fsDirs
    /\ rsv.result.fullPath \notin DOMAIN fsFiles

\* C16: for every original filename the fullPath of a reservation lies
\* inside the resolved store directory, and storedName is
\* id + delimiter + originalFilename.
C16_ReservedPathInsideStore ==
    HasReservation
        => /\ InsideStore(rsv.result.fullPath, rsv.outputDir)
           /\ rsv.result.fullPath # rsv.outputDir
           /\ rsv.result.storedName = rsv.result.id \o rsv.delimiter \o rsv.originalFilename

(***************************************************************************)
(* Specification of a shared store: two calls of reserveFile or writeFile  *)
(* with the same configuration run interleaved at their awaits, beside a   *)
(* retrieval router over the same store and delimiter that answers one     *)
(* request.  rsv.calls[p] is the call of p; mkdir proceeds one directory   *)
(* at a time and fsWriteFile one chunk at a time.  raced records that the  *)
(* directory a call was about to make was made by another in between.      *)
(***************************************************************************)
Callers == {"a", "b"}

\* the buffer each caller writes
BufferOf(p) == IF p = "a" THEN <<"h", "i">> ELSE <<"y", "o">>

\* the values the id generator returns in the shared store
StoreIds == {<<"i">>, <<"j">>}

StoreNames == {<<" ", "x">>, <<"/", ".", ".", "/", ".", ".", "/", "x">>}

\* a store directory with a missing parent (/w/s/s) and one without (/s)
SharedConfigs == {[resourceStoreUri |-> <<"s", "/", "s">>], [resourceStoreUri |-> StoreUri]}

NotCalled == [pc |-> "idle"]

InitStore ==
    /\ fsDirs = {<<"/">>, <<"/", "w">>}
    /\ fsFiles = <<>>
    /\ rsv \in {[config |-> c, calls |-> [p \in Callers |-> NotCalled]] : c \in SharedConfigs}
    /\ http = Idle
    /\ pure = Idle

\* p calls reserveFile or writeFile: the delimiter and the store directory
\* are resolved
StoreBegin(p) ==
    /\ rsv.calls[p].pc = "idle"
    /\ \E op \in {"reserveFile", "writeFile"}, f \in StoreNames :
        LET outputDir == resolveResourceStorePath(Prop(rsv.config, "resourceStoreUri"))
            call == [op |-> op, originalFilename |-> f,
                     buffer |-> IF op = "writeFile" THEN BufferOf(p) ELSE <<>>,
                     delimiter |-> delimiterOf(rsv.config), outputDir |-> Undefined,
                     target |-> Undefined, raced |-> FALSE,
                     result |-> Undefined, error |-> Undefined, written |-> 0,
                     pc |-> "probe"]
        IN  rsv' = [rsv EXCEPT !.calls[p] =
                        IF outputDir.ok
                        THEN [call EXCEPT !.outputDir = outputDir.path]
                        ELSE [call EXCEPT !.pc = "failed", !.error = [kind |-> outputDir.error]]]
    /\ UNCHANGED <<fsDirs, fsFiles, http, pure>>

\* mkdir of p looks for the next directory to make
StoreMkdirProbe(p) ==
    /\ rsv.calls[p].pc = "probe"
    /\ LET dir == rsv.calls[p].outputDir
       IN  rsv' = [rsv EXCEPT !.calls[p] =
                        IF \E a \in AncestorsAndSelf(dir) : a \in DOMAIN fsFiles
                        THEN [@ EXCEPT !.pc = "failed", !.error = [kind |-> "MkdirFailed"]]
                        ELSE IF missingDirs(dir, fsDirs) = {}
                        THEN [@ EXCEPT !.pc = "reserve"]
                        ELSE [@ EXCEPT !.pc = "create", !.target = topmostMissing(dir, fsDirs)]]
    /\ UNCHANGED <<fsDirs, fsFiles, http, pure>>

\* mkdir of p makes the directory it found missing, or finds it made
StoreMkdirCreate(p) ==
    /\ rsv.calls[p].pc = "create"
    /\ LET target == rsv.calls[p].target
       IN  IF target \in fsDirs \/ target \in DOMAIN fsFiles
           THEN /\ rsv' = [rsv EXCEPT !.calls[p] =
                              [@ EXCEPT !.pc = onExists(target \in fsDirs), !.raced = TRUE,
                                        !.error = IF onExists(target \in fsDirs) = "failed"
                                                  THEN [kind |-> "MkdirFailed"] ELSE @]]
                /\ UNCHANGED fsDirs
           ELSE /\ fsDirs' = fsDirs \cup {target}
                /\ rsv' = [rsv EXCEPT !.calls[p].pc = "probe"]
    /\ UNCHANGED <<fsFiles, http, pure>>

\* the continuation of reserveFile after mkdir runs without an await in
\* between: generateValidatedId draws values until one is accepted, or throws
\* when the generator can go on returning refused values
StoreReserve(p) ==
    /\ rsv.calls[p].pc = "reserve"
    /\ LET c == rsv.calls[p]
       IN  \/ \E id \in StoreIds :
                /\ idAccepted(id, c.delimiter)
                /\ rsv' = [rsv EXCEPT !.calls[p] =
                              [@ EXCEPT !.result = reservationOf(id, c.originalFilename,
                                                                 c.delimiter, c.outputDir),
                                        !.pc = afterReserve(c.op)]]
           \/ /\ \E id \in StoreIds : ~idAccepted(id, c.delimiter)
              /\ rsv' = [rsv EXCEPT !.calls[p] =
                            [@ EXCEPT !.pc = "failed",
                                      !.error = [kind |-> "GenerationFailed",
                                                 delimiter |-> c.delimiter,
                                                 maxAttempts |-> maxAttempts]]]
    /\ UNCHANGED <<fsDirs, fsFiles, http, pure>>

\* fsWriteFile of p opens the file: it is created or truncated
StoreWriteOpen(p) ==
    /\ rsv.calls[p].pc = "open"
    /\ LET opened == openForWrite(rsv.calls[p].result.fullPath, fsDirs, fsFiles)
       IN  /\ fsFiles' = opened.files
           /\ rsv' = [rsv EXCEPT !.calls[p] =
                         IF ~opened.ok
                         THEN [@ EXCEPT !.pc = "failed", !.error = rejection(opened.error)]
                         ELSE IF @.buffer = <<>> THEN [@ EXCEPT !.pc = "returned"]
                         ELSE [@ EXCEPT !.pc = "writing"]]
    /\ UNCHANGED <<fsDirs, http, pure>>

\* fsWriteFile of p writes some of the bytes that are left at its own offset;
\* after the last ones writeFile returns the reservation
StoreWriteChunk(p) ==
    /\ rsv.calls[p].pc = "writing"
    /\ LET c == rsv.calls[p]
       IN  \E n \in 1..(Len(c.buffer) - c.written) :
            /\ fsFiles' = [fsFiles EXCEPT ![c.result.fullPath].data =
                                pwrite(@, c.written, SubSeq(c.buffer, c.written + 1, c.written + n))]
            /\ rsv' = [rsv EXCEPT !.calls[p] =
                          [@ EXCEPT !.written = @ + n,
                                    !.pc = IF c.written + n = Len(c.buffer)
                                           THEN "returned" ELSE "writing"]]
    /\ UNCHANGED <<fsDirs, http, pure>>

\* p holds a reservation
Reserved(p) == rsv.calls[p].pc \in {"open", "writing", "returned"}

\* the router over the same store and delimiter answers a request for the
\* stored name of p; of and pcThen record whose name it was and where the
\* call of p stood
StoreGet ==
    /\ http = Idle
    /\ \E p \in Callers, o \in {[contentType |-> "static"]} :
        /\ Reserved(p)
        /\ http' = [op |-> "get", done |-> TRUE, of |-> p, pcThen |-> rsv.calls[p].pc,
                    filename |-> rsv.calls[p].result.storedName,
                    config |-> rsv.config, options |-> o,
                    router |-> createFileServingRouter(rsv.config, o),
                    res |-> handleGet(createFileServingRouter(rsv.config, o),
                                      rsv.calls[p].result.storedName, fsDirs, fsFiles)]
    /\ UNCHANGED <<fsDirs, fsFiles, rsv, pure>>

NextStore ==
    \/ \E p \in Callers :
        \/ StoreBegin(p)
        \/ StoreMkdirProbe(p)
        \/ StoreMkdirCreate(p)
        \/ StoreReserve(p)
        \/ StoreWriteOpen(p)
        \/ StoreWriteChunk(p)
    \/ StoreGet

SpecStore == InitStore /\ [][NextStore]_vars

\* the request was for the stored name of a writeFile call that had completed
GetAfterWrite ==
    /\ http.op = "get" /\ http.done
    /\ rsv.calls[http.of].op = "writeFile"
    /\ http.pcThen = "returned"

\* C11: end to end: a GET of the stored name that a completed writeFile(b, f,
\* cfg) returned, through a router over the same store and delimiter, is
\* answered 200 with body b and a Content-Disposition filename that is the
\* percent-encoded f.
C11_WriteThenGet ==
    GetAfterWrite
        => /\ http.res.status = 200
           /\ http.res.body = rsv.calls[http.of].buffer
           /\ http.res.contentDisposition.filename =
                encodeURIComponent(rsv.calls[http.of].originalFilename)

\* C12: concurrent reservations: of the calls interleaved on a store
\* directory that does not exist yet none fails, a call is past its
\* directory-creation step only when the store directory exists, and when
\* all have returned the directory exists.
C12_ConcurrentReservations ==
    /\ \A p \in Callers :
        /\ rsv.calls[p].pc # "failed"
        /\ rsv.calls[p].pc \in {"reserve", "open", "writing", "returned"}
                => rsv.calls[p].outputDir \in fsDirs
    /\ (\A p \in Callers : rsv.calls[p].pc = "returned")
            => resolveResourceStorePath(rsv.config.resourceStoreUri).path \in fsDirs

\* both calls have returned on the store /w/s/s, whose parent was missing
\* too, and each found a directory it was about to make already made
C12_Witness ==
    /\ \A p \in Callers : rsv.calls[p].pc = "returned" /\ rsv.calls[p].raced
    /\ rsv.calls["a"].op = "reserveFile"
    /\ rsv.calls["b"].op = "writeFile"
    /\ rsv.calls["a"].outputDir = <<"/", "w", "/", "s", "/", "s">>
    /\ <<"/", "w", "/", "s", "/", "s">> \in fsDirs

\* the call of p was writeFile and has returned
Written(p) == rsv.calls[p].pc = "returned" /\ rsv.calls[p].op = "writeFile"

\* the file at the fullPath of p holds the buffer of p
HoldsOwnBuffer(p) ==
    /\ rsv.calls[p].result.fullPath \in DOMAIN fsFiles
    /\ fsFiles[rsv.calls[p].result.fullPath].data = rsv.calls[p].buffer

\* C15 as claimed: any two reservations in the same store have different ids
\* and different storedNames, and after two writeFile calls both files exist
\* with what was written to them.
C15_CollisionFree ==
    \A p, q \in Callers :
        (p # q /\ Reserved(p) /\ Reserved(q))
            => /\ rsv.calls[p].result.id # rsv.calls[q].result.id
               /\ rsv.calls[p].result.storedName # rsv.calls[q].result.storedName
               /\ (Written(p) /\ Written(q)) => (HoldsOwnBuffer(p) /\ HoldsOwnBuffer(q))

\* C15: the ids of two reservations are the values the generator returned,
\* which may be the same; with a single-character delimiter different ids
\* give different storedNames; the same id with the same original filename
\* gives the same reservation; and two completed writeFile calls with
\* different fullPaths leave both files holding their own buffers.
C15_DistinctWhenIdsDiffer ==
    \A p, q \in Callers :
        (p # q /\ Reserved(p) /\ Reserved(q))
            => /\ rsv.calls[p].result.id \in StoreIds
               /\ (Len(rsv.calls[p].delimiter) = 1
                        /\ rsv.calls[p].result.id # rsv.calls[q].result.id)
                    => rsv.calls[p].result.storedName # rsv.calls[q].result.storedName
               /\ (rsv.calls[p].result.id = rsv.calls[q].result.id
                        /\ rsv.calls[p].originalFilename = rsv.calls[q].originalFilename)
                    => rsv.calls[p].result = rsv.calls[q].result
               /\ (Written(p) /\ Written(q)
                        /\ rsv.calls[p].result.fullPath # rsv.calls[q].result.fullPath)
                    => (HoldsOwnBuffer(p) /\ HoldsOwnBuffer(q))

\* two writeFile calls with the same original filename got the same id from
\* the generator, and the file no longer holds what the first one wrote
C15_Witness ==
    /\ Written("a") /\ Written("b")
    /\ rsv.calls["a"].originalFilename = <<" ", "x">>
    /\ rsv.calls["a"].result.id = <<"i">>
    /\ rsv.calls["a"].result = rsv.calls["b"].result
    /\ fsFiles[rsv.calls["a"].result.fullPath].data = <<"y", "o">>

\* C18: writeFile writes the buffer atomically: at every point the file at
\* the fullPath of a writeFile call is absent or holds the complete buffer,
\* and a retrieval request for its stored name that is answered 200 carries
\* the complete buffer.
C18_AtomicWrite ==
    /\ \A p \in Callers :
        (Reserved(p) /\ rsv.calls[p].op = "writeFile")
            => \/ rsv.calls[p].result.fullPath \notin DOMAIN fsFiles
               \/ fsFiles[rsv.calls[p].result.fullPath].data = rsv.calls[p].buffer
    /\ (http.op = "get" /\ http.done /\ http.res.status = 200
            /\ rsv.calls[http.of].op = "writeFile")
        => http.res.body = rsv.calls[http.of].buffer

(***************************************************************************)
(* parseConfig: the transport configuration from the command line and the  *)
(* environment.  JavaScript values are tagged records; an argument is an   *)
(* option with or without an inline value ('--stdio', '--port', '--port=3')*)
(* or a plain word ('3').                                                   *)
(***************************************************************************)
MaxArgs == 3

JsUndefined == [t |-> "undefined"]

JsTrue == [t |-> "boolean", b |-> TRUE]

JsString(s) == [t |-> "string", s |-> s]

JsNumber(n) == [t |-> "number", nan |-> FALSE, n |-> n]

JsNaN == [t |-> "number", nan |-> TRUE]

\* the value of a decimal digit, or -1
DigitValue(c) ==
    IF \E d \in 1..10 : DigitChars[d] = c
    THEN (CHOOSE d \in 1..10 : DigitChars[d] = c) - 1
    ELSE -1

RECURSIVE DecimalValue(_)
DecimalValue(s) ==
    IF s = <<>> THEN 0 ELSE 10 * DecimalValue(SubSeq(s, 1, Len(s) - 1)) + DigitValue(s[Len(s)])

\* Number(s) on the strings of the model: the empty string is 0, a string of
\* decimal digits is its value, any other string is NaN
Number(s) ==
    IF \A k \in 1..Len(s) : DigitValue(s[k]) >= 0 THEN JsNumber(DecimalValue(s)) ELSE JsNaN

\* the argument as it was typed
ArgText(arg) ==
    IF arg.kind = "word" THEN arg.text
    ELSE <<"-", "-">> \o arg.name
            \o (IF "value" \in DOMAIN arg THEN <<"=">> \o arg.value ELSE <<>>)

\* util.parseArgs with options stdio (boolean) and port (string), strict:
\* false, allowPositionals: true.  An option is stored with its inline value
\* or true, whatever its type; '--port' without inline value takes the next
\* argument as its value; the last occurrence of an option wins.
RECURSIVE parseArgs(_, _)
parseArgs(args, values) ==
    IF args = <<>> THEN values
    ELSE LET arg == Head(args)
         IN  IF arg.kind = "word" THEN parseArgs(Tail(args), values)
             ELSE IF "value" \in DOMAIN arg
             THEN parseArgs(Tail(args),
                            IF arg.name = <<"p", "o", "r", "t">>
                            THEN [values EXCEPT !.port = JsString(arg.value)]
                            ELSE [values EXCEPT !.stdio = JsString(arg.value)])
             ELSE IF arg.name = <<"p", "o", "r", "t">>
             THEN IF Len(args) > 1
                  THEN parseArgs(Tail(Tail(args)),
                                 [values EXCEPT !.port = JsString(ArgText(args[2]))])
                  ELSE [values EXCEPT !.port = JsTrue]
             ELSE parseArgs(Tail(args), [values EXCEPT !.stdio = JsTrue])

\* !x for the values a port can have
NotTruthy(x) == x.t = "undefined" \/ (x.t = "number" /\ (x.nan \/ x.n = 0))

\* parseConfig(args, env); it has no throw statement
parseConfig(args, env) ==
    LET values == parseArgs(args, [stdio |-> JsUndefined, port |-> JsUndefined])
        cliPort == IF values.port.t = "string" THEN Number(values.port.s) ELSE JsUndefined
        envPort == IF "PORT" \in DOMAIN env /\ env.PORT # <<>> THEN Number(env.PORT) ELSE JsUndefined
        port == IF cliPort # JsUndefined THEN cliPort ELSE envPort
        useStdio == IF values.stdio.t = "boolean" THEN values.stdio ELSE JsUndefined
    IN  [threw |-> FALSE,
         transport |-> IF useStdio = JsTrue \/ NotTruthy(port)
                       THEN [type |-> "stdio"]
                       ELSE [type |-> "http", port |-> port],
         port |-> port]

(***************************************************************************)
(* Specification of parseConfig: the arguments and the environment are     *)
(* drawn from bounded sets and parseConfig is applied to them.             *)
(***************************************************************************)
PortTexts == {<<"3">>, <<"0">>, <<>>, <<"a">>}

CliArgs ==
    {[kind |-> "option", name |-> <<"s", "t", "d", "i", "o">>],
     [kind |-> "option", name |-> <<"p", "o", "r", "t">>],
     [kind |-> "word", text |-> <<"7">>]}
    \cup {[kind |-> "option", name |-> <<"p", "o", "r", "t">>, value |-> v] : v \in PortTexts}

Environments == {<<>>} \cup {[PORT |-> v] : v \in {<<"8">>, <<"0">>, <<>>, <<"a">>}}

InitConfig ==
    /\ fsDirs = QuietDirs
    /\ fsFiles = <<>>
    /\ rsv = Idle
    /\ http = Idle
    /\ pure \in {[op |-> "parseConfig", done |-> FALSE, args |-> a, env |-> e] :
                    a \in StrUpTo(CliArgs, MaxArgs), e \in Environments}

ParseConfig ==
    /\ pure.op = "parseConfig" /\ ~pure.done
    /\ pure' = [op |-> "parseConfig", done |-> TRUE, args |-> pure.args, env |-> pure.env,
                res |-> parseConfig(pure.args, pure.env)]
    /\ UNCHANGED <<fsDirs, fsFiles, rsv, http>>

NextConfig == ParseConfig

SpecConfig == InitConfig /\ [][NextConfig]_vars

\* the options of the call as parseArgs stores them
GivenValues == parseArgs(pure.args, [stdio |-> JsUndefined, port |-> JsUndefined])

\* the --stdio flag is given
StdioGiven == GivenValues.stdio = JsTrue

\* --port is given with a value that is not empty
PortByFlag == GivenValues.port.t = "string" /\ GivenValues.port.s # <<>>

\* PORT is set to a value that is not empty
PortByEnv == "PORT" \in DOMAIN pure.env /\ pure.env.PORT # <<>>

\* the text of the port that is supplied: that of --port before that of PORT
SuppliedPort == IF PortByFlag THEN GivenValues.port.s ELSE pure.env.PORT

\* C19: parseConfig returns type 'http', with transport.port equal to the
\* returned port and that port the number supplied, exactly when --stdio is
\* not given and a port is supplied by --port or, absent that, by PORT; in
\* every other case it returns type 'stdio'.
C19_SelectsTransport ==
    (pure.op = "parseConfig" /\ pure.done)
        => IF ~StdioGiven /\ (PortByFlag \/ PortByEnv)
           THEN /\ ~pure.res.threw
                /\ pure.res.transport.type = "http"
                /\ pure.res.transport.port = pure.res.port
                /\ pure.res.port = Number(SuppliedPort)
           ELSE /\ ~pure.res.threw
                /\ pure.res.transport.type = "stdio"

\* C20: parseConfig throws when the value of --port or of PORT is not a
\* number, and returns no transport then.
C20_ThrowsOnInvalidPort ==
    (pure.op = "parseConfig" /\ pure.done
        /\ \/ (PortByFlag /\ Number(GivenValues.port.s) = JsNaN)
           \/ (PortByEnv /\ Number(pure.env.PORT) = JsNaN))
        => pure.res.threw

\* the call was configured with the empty string as delimiter
EmptyDelimiterCall ==
    /\ rsv.op # "none"
    /\ "delimiter" \in DOMAIN rsv.config
    /\ rsv.config.delimiter = <<>>

\* C29: a configured empty delimiter is kept; a call with it never holds a
\* reservation and never returns; once its store directory is made it can
\* only end in the generation error, after exactly 100 generator calls that
\* were all refused; and parseStoredName with the empty delimiter gives the
\* empty id and the whole stored name as filename.
C29_EmptyDelimiter ==
    EmptyDelimiterCall
        => /\ rsv.delimiter = <<>>
           /\ ~HasReservation
           /\ rsv.badCalls = rsv.calls
           /\ rsv.pc \in {"generate", "failed"} \/ (rsv.pc = "mkdir" /\ rsv.calls = 0)
           /\ rsv.pc = "failed"
                => \/ rsv.calls = 0 /\ rsv.error.kind # "GenerationFailed"
                   \/ rsv.calls = 100 /\ rsv.error.kind = "GenerationFailed"
           /\ (rsv.pc = "failed" /\ rsv.outputDir # Undefined /\ rsv.outputDir \in fsDirs)
                => rsv.error.kind = "GenerationFailed"
           /\ \A id \in GenIds :
                parseStoredName(id \o rsv.originalFilename, <<>>) =
                    [id |-> <<>>, filename |-> id \o rsv.originalFilename]

\* reserveFile with the empty delimiter has failed with the generation error
\* after 100 generator calls
C29_Witness ==
    /\ EmptyDelimiterCall
    /\ rsv.op = "reserveFile"
    /\ rsv.pc = "failed"
    /\ rsv.error.kind = "GenerationFailed"
    /\ rsv.calls = 100
    /\ rsv.originalFilename = <<"x">>

ReservationErrors ==
    {"RequiresResourceStoreUri", "UnsupportedScheme", "MkdirFailed", "GenerationFailed"}

\* C24: writeFile reserves, then writes once: fsWriteFile is called at most
\* once; when the reservation has failed it has not been called and the
\* regular files are those found before the call; when the write has failed
\* the caller gets the error of the write itself; and on success the result
\* is the reservation made from the accepted id, with the buffer in the file.
C24_WriteFileErrors ==
    rsv.op = "writeFile"
        => /\ rsv.opens <= 1
           /\ (rsv.pc = "failed" /\ "kind" \in DOMAIN rsv.error
                    /\ rsv.error.kind \in ReservationErrors)
                => /\ rsv.opens = 0
                   /\ rsv.result = Undefined
                   /\ fsFiles = rsv.before.files
           /\ (rsv.pc = "failed" /\ rsv.opens = 1)
                => /\ rsv.error = openForWrite(rsv.result.fullPath, fsDirs, fsFiles).error
                   /\ rsv.error.kind \in {"ENOENT", "EISDIR"}
                   /\ rsv.error.path = rsv.result.fullPath
           /\ rsv.pc = "returned"
                => /\ rsv.opens = 1
                   /\ rsv.result = reservationOf(rsv.firstGood, rsv.originalFilename,
                                                 rsv.delimiter, rsv.outputDir)
                   /\ fsFiles[rsv.result.fullPath].data = rsv.buffer

\* writeFile of 's/x' has failed in the write, in a directory that does not
\* exist, after its reservation was made
C24_Witness ==
    /\ rsv.op = "writeFile" /\ rsv.pc = "failed"
    /\ rsv.opens = 1
    /\ rsv.originalFilename = <<"s", "/", "x">>
    /\ rsv.error = [kind |-> "ENOENT", path |-> rsv.result.fullPath]
    /\ rsv.result.fullPath \notin DOMAIN fsFiles

(***************************************************************************)
(* sanitizeUrl.  The text of a URL is a sequence of pieces: the origin     *)
(* 'h://x', the separators '/', '?', '&', '=', '#', names, and the value   *)
(* pieces '1', '2', '%20' and '+' (both of which decode to a space).       *)
(***************************************************************************)
MaxParams == 2

Origin == "h://x"

secretParams ==
    <<<<"secret">>, <<"oauth_token">>, <<"api_key">>, <<"token">>, <<"password">>, <<"pw">>>>

\* the pieces of s before the first sep, and those after it
BeforeFirst(s, sep) ==
    IF \E k \in 1..Len(s) : s[k] = sep
    THEN SubSeq(s, 1, (CHOOSE k \in 1..Len(s) : s[k] = sep /\ \A j \in 1..(k - 1) : s[j] # sep) - 1)
    ELSE s

AfterFirst(s, sep) ==
    IF \E k \in 1..Len(s) : s[k] = sep
    THEN SubSeq(s, (CHOOSE k \in 1..Len(s) : s[k] = sep /\ \A j \in 1..(k - 1) : s[j] # sep) + 1, Len(s))
    ELSE <<>>

\* s cut at every sep
RECURSIVE SplitOn(_, _)
SplitOn(s, sep) ==
    IF \E k \in 1..Len(s) : s[k] = sep
    THEN <<BeforeFirst(s, sep)>> \o SplitOn(AfterFirst(s, sep), sep)
    ELSE <<s>>

\* percent-decoding of a name or value of a query: '+' and '%20' are a space
FormDecode(s) == [k \in 1..Len(s) |-> IF s[k] \in {"+", "%20"} THEN " " ELSE s[k]]

\* the application/x-www-form-urlencoded serialisation of a name or value
FormEncode(s) == [k \in 1..Len(s) |-> IF s[k] = " " THEN "+" ELSE s[k]]

\* the name-value pairs of a query: empty pieces are skipped, a piece
\* without '=' has the empty value
RECURSIVE PairsOf(_)
PairsOf(pieces) ==
    IF pieces = <<>> THEN <<>>
    ELSE (IF Head(pieces) = <<>> THEN <<>>
          ELSE <<[name |-> FormDecode(BeforeFirst(Head(pieces), "=")),
                  value |-> FormDecode(AfterFirst(Head(pieces), "="))]>>)
         \o PairsOf(Tail(pieces))

parseQuery(query) == PairsOf(SplitOn(query, "&"))

\* new URL(url): a text that does not begin with an origin does not parse;
\* the empty path of the origin becomes '/'
parseUrl(url) ==
    IF url = <<>> \/ Head(url) # Origin THEN [ok |-> FALSE]
    ELSE LET rest == Tail(url)
             beforeHash == BeforeFirst(rest, "#")
         IN  [ok |-> TRUE,
              path |-> IF BeforeFirst(beforeHash, "?") = <<>> THEN <<"/">>
                       ELSE BeforeFirst(beforeHash, "?"),
              hasQuery |-> \E k \in 1..Len(beforeHash) : beforeHash[k] = "?",
              query |-> AfterFirst(beforeHash, "?"),
              hash |-> IF AfterFirst(rest, "#") = <<>> THEN <<>>
                       ELSE <<"#">> \o AfterFirst(rest, "#")]

\* searchParams.has(name)
hasParam(pairs, name) == \E k \in 1..Len(pairs) : pairs[k].name = name

\* a set that leaves later pairs of the same name in place
setParamFirstOnly(pairs, name, value) ==
    LET first == CHOOSE k \in 1..Len(pairs) :
                    pairs[k].name = name /\ \A j \in 1..(k - 1) : pairs[j].name # name
    IN  [k \in 1..Len(pairs) |-> IF k = first THEN [name |-> name, value |-> value] ELSE pairs[k]]

\* searchParams.set(name, value) when a pair of that name exists: the first
\* one gets the value and the others of that name are removed
setParam(pairs, name, value) ==
    LET first == CHOOSE k \in 1..Len(pairs) :
                    pairs[k].name = name /\ \A j \in 1..(k - 1) : pairs[j].name # name
        kept == {k \in 1..Len(pairs) : k = first \/ pairs[k].name # name}
        nth(i) == CHOOSE k \in kept : Cardinality({j \in kept : j < k}) = i - 1
    IN  [i \in 1..Cardinality(kept) |->
            IF nth(i) = first THEN [name |-> name, value |-> value] ELSE pairs[nth(i)]]

\* the serialisation of the pairs
RECURSIVE serializePairs(_)
serializePairs(pairs) ==
    IF pairs = <<>> THEN <<>>
    ELSE FormEncode(Head(pairs).name) \o <<"=">> \o FormEncode(Head(pairs).value)
         \o (IF Len(pairs) > 1 THEN <<"&">> ELSE <<>>) \o serializePairs(Tail(pairs))

\* the loop over secretParams, from the k-th name on
RECURSIVE maskFrom(_, _)
maskFrom(pairs, k) ==
    IF k > Len(secretParams) THEN pairs
    ELSE maskFrom(IF hasParam(pairs, secretParams[k])
                  THEN setParam(pairs, secretParams[k], <<"*", "*", "*">>)
                  ELSE pairs,
                  k + 1)

\* sanitizeUrl(url): the query is serialised anew only when a parameter was
\* set; a text that does not parse is returned as it is
sanitizeUrl(url) ==
    LET parsed == parseUrl(url)
    IN  IF ~parsed.ok THEN url
        ELSE LET pairs == parseQuery(parsed.query)
                 touched == \E k \in 1..Len(secretParams) : hasParam(pairs, secretParams[k])
                 query == IF touched THEN serializePairs(maskFrom(pairs, 1)) ELSE parsed.query
             IN  <<Origin>> \o parsed.path
                    \o (IF parsed.hasQuery THEN <<"?">> \o query ELSE <<>>)
                    \o parsed.hash

(***************************************************************************)
(* Specification of sanitizeUrl: two URL texts that differ at most in the  *)
(* values of their secret parameters are drawn and sanitizeUrl is applied  *)
(* to both.                                                                 *)
(***************************************************************************)
UrlNames == {<<"token">>, <<"pw">>, <<"a">>}

\* a parameter as it is written: name=value, or the bare name
WrittenParams ==
    {[name |-> n, value |-> v, bare |-> FALSE] : n \in UrlNames, v \in {<<"1">>, <<"%20">>, <<>>}}
    \cup {[name |-> n, value |-> <<>>, bare |-> TRUE] : n \in UrlNames}

IsSecretName(n) == \E k \in 1..Len(secretParams) : secretParams[k] = n

\* the ways the same parameter is written with another secret value
OtherSecret(w) ==
    IF IsSecretName(w.name)
    THEN {w, [name |-> w.name, value |-> <<"2">>, bare |-> FALSE],
             [name |-> w.name, value |-> <<>>, bare |-> TRUE]}
    ELSE {w}

\* the parameter lists that differ from ws only in secret values
RECURSIVE SecretVariants(_)
SecretVariants(ws) ==
    IF ws = <<>> THEN {<<>>}
    ELSE {<<v>> \o rest : v \in OtherSecret(Head(ws)), rest \in SecretVariants(Tail(ws))}

RECURSIVE QueryText(_)
QueryText(ws) ==
    IF ws = <<>> THEN <<>>
    ELSE Head(ws).name \o (IF Head(ws).bare THEN <<>> ELSE <<"=">> \o Head(ws).value)
         \o (IF Len(ws) > 1 THEN <<"&">> ELSE <<>>) \o QueryText(Tail(ws))

\* the text of a URL: with or without origin, query and fragment
UrlText(start, ws, hash) ==
    <<start>> \o (IF ws = <<>> THEN <<>> ELSE <<"?">> \o QueryText(ws)) \o hash

InitUrl ==
    /\ fsDirs = QuietDirs
    /\ fsFiles = <<>>
    /\ rsv = Idle
    /\ http = Idle
    /\ \E ws \in StrUpTo(WrittenParams, MaxParams), start \in {Origin, "x"},
          hash \in {<<>>, <<"#", "token", "=", "1">>} :
        \E vs \in SecretVariants(ws) :
            pure = [op |-> "sanitizeUrl", done |-> FALSE, params |-> ws,
                    url |-> UrlText(start, ws, hash), other |-> UrlText(start, vs, hash)]

SanitizeBoth ==
    /\ pure.op = "sanitizeUrl" /\ ~pure.done
    /\ pure' = [pure EXCEPT !.done = TRUE] @@
               [res |-> sanitizeUrl(pure.url), otherRes |-> sanitizeUrl(pure.other)]
    /\ UNCHANGED <<fsDirs, fsFiles, rsv, http>>

NextUrl == SanitizeBoth

SpecUrl == InitUrl /\ [][NextUrl]_vars

\* what the claim expects of the parameters: a secret name keeps its first
\* place with the value '***', every other parameter its name and value
RECURSIVE ExpectedFrom(_, _)
ExpectedFrom(ws, seen) ==
    IF ws = <<>> THEN <<>>
    ELSE IF IsSecretName(Head(ws).name)
    THEN (IF Head(ws).name \in seen THEN <<>>
          ELSE <<[name |-> Head(ws).name, value |-> <<"*", "*", "*">>]>>)
         \o ExpectedFrom(Tail(ws), seen \cup {Head(ws).name})
    ELSE <<[name |-> Head(ws).name, value |-> FormDecode(Head(ws).value)]>>
         \o ExpectedFrom(Tail(ws), seen)

\* C21: for two URLs that differ only in the values of secret parameters
\* sanitizeUrl returns the same text, in which every secret parameter
\* present has the value '***' and every other parameter keeps its name and
\* value; a text that does not parse as a URL is returned unchanged.
C21_SanitizeUrl ==
    (pure.op = "sanitizeUrl" /\ pure.done)
        => IF Head(pure.url) = Origin
           THEN /\ pure.res = pure.otherRes
                /\ Head(pure.res) = Origin
                /\ parseQuery(AfterFirst(BeforeFirst(pure.res, "#"), "?"))
                        = ExpectedFrom(pure.params, {})
                /\ \A k \in 1..Len(BeforeFirst(pure.res, "#")) :
                        BeforeFirst(pure.res, "#")[k] \notin {"1", "2"}
                            \/ \E j \in 1..Len(pure.params) :
                                    /\ ~IsSecretName(pure.params[j].name)
                                    /\ pure.params[j].value = <<pure.res[k]>>
           ELSE /\ pure.res = pure.url
                /\ pure.otherRes = pure.other

\* two URLs with different values of token, one of them with a second token
\* value, were sanitized to the same text
C21_Witness ==
    /\ pure.op = "sanitizeUrl" /\ pure.done
    /\ pure.url = <<Origin, "?", "token", "=", "1", "&", "a", "=", "%20">>
    /\ pure.other = <<Origin, "?", "token", "=", "2", "&", "a", "=", "%20">>
    /\ pure.res = <<Origin, "/", "?", "token", "=", "*", "*", "*", "&", "a", "=", "+">>
    /\ pure.otherRes = pure.res

(***************************************************************************)
(* connectHttp: the HTTP server after connectHttp has resolved, and the    *)
(* close function it returned.  http.conns[c] is the state of connection   *)
(* c: none, idle (keep-alive, no request in progress), active (a request   *)
(* or an MCP response stream in progress) or destroyed (the socket was     *)
(* destroyed and its 'close' event is pending).  http.closes[k] is the     *)
(* state of the k-th call of close, http.openAtClose the connections that  *)
(* were open when close was called.                                        *)
(***************************************************************************)
MaxConns == 4

MaxCloses == 2

\* a close that leaves the connections alone
closeAllConnectionsNone(conns) == conns

\* httpServer.closeAllConnections(): every connection is destroyed
closeAllConnections(conns) ==
    [c \in DOMAIN conns |-> IF conns[c] \in {"idle", "active"} THEN "destroyed" ELSE conns[c]]

\* httpServer.close(): the server stops listening and its idle connections
\* are closed
serverClose(conns) ==
    [c \in DOMAIN conns |-> IF conns[c] = "idle" THEN "destroyed" ELSE conns[c]]

InitHttp ==
    /\ fsDirs = QuietDirs
    /\ fsFiles = <<>>
    /\ rsv = Idle
    /\ pure = Idle
    /\ http = [op |-> "server", listening |-> TRUE,
               conns |-> [c \in 1..MaxConns |-> "none"],
               closes |-> [k \in 1..MaxCloses |-> "none"], openAtClose |-> {}]

\* a client connects
Connect(c) ==
    /\ http.op = "server" /\ http.listening
    /\ http.conns[c] = "none"
    /\ http' = [http EXCEPT !.conns[c] = "idle"]
    /\ UNCHANGED <<fsDirs, fsFiles, rsv, pure>>

\* a request or an MCP stream begins on a connection
RequestBegins(c) ==
    /\ http.op = "server" /\ http.conns[c] = "idle"
    /\ http' = [http EXCEPT !.conns[c] = "active"]
    /\ UNCHANGED <<fsDirs, fsFiles, rsv, pure>>

\* the response is complete and the connection is kept alive
RequestEnds(c) ==
    /\ http.op = "server" /\ http.conns[c] = "active"
    /\ http' = [http EXCEPT !.conns[c] = "idle"]
    /\ UNCHANGED <<fsDirs, fsFiles, rsv, pure>>

\* the client closes its connection
Disconnect(c) ==
    /\ http.op = "server" /\ http.conns[c] \in {"idle", "active"}
    /\ http' = [http EXCEPT !.conns[c] = "none"]
    /\ UNCHANGED <<fsDirs, fsFiles, rsv, pure>>

\* close() is called: closeAllConnections and httpServer.close run in the
\* same turn of the event loop
CallClose(k) ==
    /\ http.op = "server" /\ http.closes[k] = "none"
    /\ \A j \in 1..(k - 1) : http.closes[j] # "none"
    /\ http' = [http EXCEPT !.closes[k] = "called",
                            !.listening = FALSE,
                            !.openAtClose = @ \cup {c \in 1..MaxConns :
                                                        http.conns[c] \in {"idle", "active"}},
                            !.conns = serverClose(closeAllConnections(http.conns))]
    /\ UNCHANGED <<fsDirs, fsFiles, rsv, pure>>

\* the 'close' event of a destroyed socket
SocketClosed(c) ==
    /\ http.op = "server" /\ http.conns[c] = "destroyed"
    /\ http' = [http EXCEPT !.conns[c] = "none"]
    /\ UNCHANGED <<fsDirs, fsFiles, rsv, pure>>

\* the server has stopped listening and has no connection left: it emits
\* 'close' and the callbacks given to httpServer.close resolve their promises
ServerClosed ==
    /\ http.op = "server" /\ ~http.listening
    /\ \A c \in 1..MaxConns : http.conns[c] = "none"
    /\ \E k \in 1..MaxCloses : http.closes[k] = "called"
    /\ http' = [http EXCEPT !.closes =
                    [k \in 1..MaxCloses |-> IF http.closes[k] = "called" THEN "resolved"
                                            ELSE http.closes[k]]]
    /\ UNCHANGED <<fsDirs, fsFiles, rsv, pure>>

NextHttp ==
    \/ \E c \in 1..MaxConns :
        Connect(c) \/ RequestBegins(c) \/ RequestEnds(c) \/ Disconnect(c) \/ SocketClosed(c)
    \/ \E k \in 1..MaxCloses : CallClose(k)
    \/ ServerClosed

SpecHttp == InitHttp /\ [][NextHttp]_vars

\* the event loop delivers the pending 'close' events
SpecHttpLive ==
    /\ SpecHttp
    /\ \A c \in 1..MaxConns : WF_vars(SocketClosed(c))
    /\ WF_vars(ServerClosed)

\* C22: every call of close eventually resolves, whatever connections are
\* open when it is called, and once a call of close has resolved the server
\* is not listening and has no connection.
C22_CloseResolves ==
    /\ \A k \in 1..MaxCloses : (http.closes[k] = "called") ~> (http.closes[k] = "resolved")
    /\ [](\A k \in 1..MaxCloses :
            http.closes[k] = "resolved"
                => /\ ~http.listening
                   /\ \A c \in 1..MaxConns : http.conns[c] = "none")

\* close has resolved after it was called with two connections open, and a
\* second call of close is pending
C22_Witness ==
    /\ http.op = "server"
    /\ http.closes[1] = "resolved"
    /\ http.closes[2] = "called"
    /\ http.openAtClose = {1, 2}
    /\ ~http.listening

\* ---------------------------------------------------------------------
\* registerTools, registerResources, registerPrompts

MaxModules == 3

\* the config object passed for a resource module that has none
EmptyConfig == "{}"

\* the server's register methods, which record the call
registerTool(server, name, config, handler) ==
    [server EXCEPT !.tools =
        Append(@, [name |-> name, config |-> config, handler |-> handler])]

registerResource(server, name, template, config, handler) ==
    [server EXCEPT !.resources =
        Append(@, [name |-> name, template |-> template, config |-> config,
                   handler |-> handler])]

registerPrompt(server, name, config, handler) ==
    [server EXCEPT !.prompts =
        Append(@, [name |-> name, config |-> config, handler |-> handler])]

RECURSIVE registerTools(_, _)
registerTools(server, tools) ==
    IF tools = <<>> THEN [threw |-> FALSE, server |-> server]
    ELSE LET tool == Head(tools)
         IN registerTools(registerTool(server, tool.name, tool.config, tool.handler),
                          Tail(tools))

\* !resource.template
lacksTemplate(resource) == "template" \notin DOMAIN resource

configOrEmptyUndefined(resource) ==
    IF "config" \in DOMAIN resource THEN resource.config ELSE "undefined"

\* resource.config ?? {}
configOrEmpty(resource) ==
    IF "config" \in DOMAIN resource THEN resource.config ELSE EmptyConfig

RECURSIVE registerResources(_, _)
registerResources(server, resources) ==
    IF resources = <<>> THEN [threw |-> FALSE, server |-> server]
    ELSE LET resource == Head(resources)
         IN IF lacksTemplate(resource)
            THEN [threw |-> TRUE, server |-> server,
                  message |-> <<"Resource \"", resource.name, "\" must have a template">>]
            ELSE registerResources(
                     registerResource(server, resource.name, resource.template,
                                      configOrEmpty(resource), resource.handler),
                     Tail(resources))

RECURSIVE registerPrompts(_, _)
registerPrompts(server, prompts) ==
    IF prompts = <<>> THEN [threw |-> FALSE, server |-> server]
    ELSE LET prompt == Head(prompts)
         IN registerPrompts(registerPrompt(server, prompt.name, prompt.config, prompt.handler),
                            Tail(prompts))

ModuleNames == {"n", "m"}

ToolModules == [name : ModuleNames, config : {"c1", "c2"}, handler : {"h1", "h2"}]

PromptModules == ToolModules

ResourceModules ==
    LET base == [name : ModuleNames, handler : {"h1"}]
    IN UNION {{b, b @@ [template |-> "t1"], b @@ [config |-> "c1"],
               b @@ [template |-> "t2", config |-> "c1"]} : b \in base}

NewServer == [tools |-> <<>>, resources |-> <<>>, prompts |-> <<>>]

InitRegister ==
    /\ fsDirs = QuietDirs
    /\ fsFiles = <<>>
    /\ rsv = Idle
    /\ http = Idle
    /\ \/ \E ms \in StrUpTo(ToolModules, MaxModules) :
            pure = [op |-> "register", kind |-> "tools", modules |-> ms, done |-> FALSE]
       \/ \E ms \in StrUpTo(ResourceModules, MaxModules) :
            pure = [op |-> "register", kind |-> "resources", modules |-> ms, done |-> FALSE]
       \/ \E ms \in StrUpTo(PromptModules, MaxModules) :
            pure = [op |-> "register", kind |-> "prompts", modules |-> ms, done |-> FALSE]

RegisterTools ==
    /\ pure.op = "register" /\ pure.kind = "tools" /\ ~pure.done
    /\ pure' = [pure EXCEPT !.done = TRUE] @@ [res |-> registerTools(NewServer, pure.modules)]
    /\ UNCHANGED <<fsDirs, fsFiles, rsv, http>>

RegisterResources ==
    /\ pure.op = "register" /\ pure.kind = "resources" /\ ~pure.done
    /\ pure' = [pure EXCEPT !.done = TRUE] @@ [res |-> registerResources(NewServer, pure.modules)]
    /\ UNCHANGED <<fsDirs, fsFiles, rsv, http>>

RegisterPrompts ==
    /\ pure.op = "register" /\ pure.kind = "prompts" /\ ~pure.done
    /\ pure' = [pure EXCEPT !.done = TRUE] @@ [res |-> registerPrompts(NewServer, pure.modules)]
    /\ UNCHANGED <<fsDirs, fsFiles, rsv, http>>

NextRegister ==
    \/ RegisterTools
    \/ RegisterResources
    \/ RegisterPrompts

SpecRegister == InitRegister /\ [][NextRegister]_vars

\* the call the claim expects for one module
ExpectedCall(kind, m) ==
    IF kind = "resources"
    THEN [name |-> m.name, template |-> m.template,
          config |-> IF "config" \in DOMAIN m THEN m.config ELSE "{}",
          handler |-> m.handler]
    ELSE [name |-> m.name, config |-> m.config, handler |-> m.handler]

\* the number of modules before the first resource without a template
BeforeMissingTemplate(kind, ms) ==
    LET missing == {k \in 1..Len(ms) : kind = "resources" /\ "template" \notin DOMAIN ms[k]}
    IN IF missing = {} THEN Len(ms)
       ELSE (CHOOSE k \in missing : \A j \in missing : k <= j) - 1

CallsOf(kind, server) ==
    CASE kind = "tools" -> server.tools
      [] kind = "resources" -> server.resources
      [] kind = "prompts" -> server.prompts

\* C23 as stated: the register method of the kind is called exactly once per
\* module of the list, in list order, with the module's name, config and
\* handler (a resource's template too, and an empty config object when it
\* has none), and no other register method is called.
C23_OncePerModule ==
    (pure.op = "register" /\ pure.done)
        => /\ ~pure.res.threw
           /\ CallsOf(pure.kind, pure.res.server)
                = [k \in 1..Len(pure.modules) |-> ExpectedCall(pure.kind, pure.modules[k])]
           /\ \A other \in {"tools", "resources", "prompts"} \ {pure.kind} :
                CallsOf(other, pure.res.server) = <<>>

\* C23: the register method of the kind is called once, in list order and
\* with the module's own name, config and handler (a resource's template too,
\* and an empty config object when it has none), for every module before the
\* first resource that has no template; at that resource registerResources
\* throws and registers nothing further; no other register method is called,
\* and an empty list makes no call.
C23_OncePerModuleUntilThrow ==
    (pure.op = "register" /\ pure.done)
        => LET n == BeforeMissingTemplate(pure.kind, pure.modules)
           IN /\ pure.res.threw <=> n < Len(pure.modules)
              /\ CallsOf(pure.kind, pure.res.server)
                    = [k \in 1..n |-> ExpectedCall(pure.kind, pure.modules[k])]
              /\ pure.res.threw
                    => pure.res.message
                         = <<"Resource \"", pure.modules[n + 1].name, "\" must have a template">>
              /\ \A other \in {"tools", "resources", "prompts"} \ {pure.kind} :
                    CallsOf(other, pure.res.server) = <<>>

\* registerResources registered two resources, one of them without a config,
\* and threw at the third, which has no template
C23_Witness ==
    /\ pure.op = "register" /\ pure.done
    /\ pure.kind = "resources"
    /\ pure.res.threw
    /\ Len(pure.modules) = 3
    /\ Len(pure.res.server.resources) = 2
    /\ pure.res.server.resources[1].name # pure.res.server.resources[2].name
    /\ \E k \in 1..2 : "config" \notin DOMAIN pure.modules[k]

\* ---------------------------------------------------------------------
\* composeMiddleware

MaxLayers == 2

\* A module is the sequence of its name followed by the wrappers applied to
\* it, innermost first: wrapper(module) is the module with the wrapper's name
\* appended, so w2(w1(m)) and w1(w2(m)) are different values.
call(wrapper, module) == Append(module, wrapper)

\* collection.map(wrapper)
map(collection, wrapper) == [k \in 1..Len(collection) |-> call(wrapper, collection[k])]

\* the reducer: one layer applied to the accumulated collections
applyLayer(acc, layer) ==
    [tools |-> IF "withTool" \in DOMAIN layer
               THEN map(acc.tools, layer.withTool) ELSE acc.tools,
     resources |-> IF "withResource" \in DOMAIN layer
                   THEN map(acc.resources, layer.withResource) ELSE acc.resources,
     prompts |-> IF "withPrompt" \in DOMAIN layer
                 THEN map(acc.prompts, layer.withPrompt) ELSE acc.prompts]

RECURSIVE reduce(_, _)
reduce(layers, acc) ==
    IF layers = <<>> THEN acc
    ELSE reduce(Tail(layers), applyLayer(acc, Head(layers)))

RECURSIVE reduceRight(_, _)
reduceRight(layers, acc) ==
    IF layers = <<>> THEN acc
    ELSE applyLayer(reduceRight(Tail(layers), acc), Head(layers))

composeMiddlewareRight(modules, layers) == reduceRight(layers, modules)

composeMiddleware(modules, layers) == reduce(layers, modules)

\* the layers of the model: each is named and has any of the three wrappers
LayerNames == {"auth", "log"}

WrapperKinds == {"withTool", "withResource", "withPrompt"}

Layers ==
    {[kind \in kinds |-> <<name, kind>>] : name \in LayerNames, kinds \in SUBSET WrapperKinds}

Collections ==
    [tools : {<<>>, <<<<"t1">>>>, <<<<"t1">>, <<"t2">>>>, <<<<"t2">>, <<"t1">>>>},
     resources : {<<>>, <<<<"r1">>>>},
     prompts : {<<>>, <<<<"p1">>>>, <<<<"p1">>, <<"p2">>>>}]

InitCompose ==
    /\ fsDirs = QuietDirs
    /\ fsFiles = <<>>
    /\ rsv = Idle
    /\ http = Idle
    /\ \E modules \in Collections, layers \in StrUpTo(Layers, MaxLayers) :
        pure = [op |-> "composeMiddleware", done |-> FALSE,
                modules |-> modules, layers |-> layers]

ComposeMiddleware ==
    /\ pure.op = "composeMiddleware" /\ ~pure.done
    /\ pure' = [pure EXCEPT !.done = TRUE] @@
               [res |-> composeMiddleware(pure.modules, pure.layers)]
    /\ UNCHANGED <<fsDirs, fsFiles, rsv, http>>

NextCompose == ComposeMiddleware

SpecCompose == InitCompose /\ [][NextCompose]_vars

\* Ln.with(...L1.with(module)...) for the wrappers of one kind, where a layer
\* without a wrapper of the kind passes the module on
RECURSIVE Nested(_, _, _)
Nested(layers, kind, module) ==
    IF layers = <<>> THEN module
    ELSE LET last == layers[Len(layers)]
             inner == Nested(SubSeq(layers, 1, Len(layers) - 1), kind, module)
         IN IF kind \in DOMAIN last THEN Append(inner, last[kind]) ELSE inner

NestedAll(layers, kind, collection) ==
    [k \in 1..Len(collection) |-> Nested(layers, kind, collection[k])]

\* C25: every resulting tool is Ln.withTool(...L1.withTool(tool)...), the
\* first layer innermost, and likewise every resource and prompt; a layer
\* without a wrapper for a kind leaves that kind's modules as they were; the
\* number and order of the modules of each collection is kept; an empty
\* layer list returns the input collections.
C25_ComposeOrder ==
    (pure.op = "composeMiddleware" /\ pure.done)
        => /\ pure.res.tools = NestedAll(pure.layers, "withTool", pure.modules.tools)
           /\ pure.res.resources = NestedAll(pure.layers, "withResource", pure.modules.resources)
           /\ pure.res.prompts = NestedAll(pure.layers, "withPrompt", pure.modules.prompts)
           /\ \A c \in {"tools", "resources", "prompts"} :
                /\ Len(pure.res[c]) = Len(pure.modules[c])
                /\ \A k \in 1..Len(pure.modules[c]) :
                     Head(pure.res[c][k]) = Head(pure.modules[c][k])
           /\ pure.layers = <<>> => pure.res = pure.modules
           /\ \A c \in {"tools", "resources", "prompts"} :
                (\A k \in 1..Len(pure.layers) :
                    pure.layers[k] \in [WrapperKinds \ {CASE c = "tools" -> "withTool"
                                                          [] c = "resources" -> "withResource"
                                                          [] c = "prompts" -> "withPrompt"}
                                        -> LayerNames \X WrapperKinds])
                    => pure.res[c] = pure.modules[c]

\* two tools went through two layers that both wrap tools, and the second
\* layer has no wrapper for prompts
C25_Witness ==
    /\ pure.op = "composeMiddleware" /\ pure.done
    /\ Len(pure.layers) = 2
    /\ pure.res.tools = <<<<"t2", <<"auth", "withTool">>, <<"log", "withTool">>>>,
                          <<"t1", <<"auth", "withTool">>, <<"log", "withTool">>>>>>
    /\ "withPrompt" \notin DOMAIN pure.layers[2]
    /\ pure.res.prompts = <<<<"p1", <<"auth", "withPrompt">>>>>>

\* ---------------------------------------------------------------------
\* findConfigPath

\* the default config filename, one character of the model
DefaultConfig == <<".mcp.json">>

\* path.isAbsolute
isAbsolute(path) == path # <<>> /\ path[1] = "/"

\* path.parse(path).root
rootOf(path) == IF isAbsolute(path) THEN <<"/">> ELSE <<>>

\* path.dirname: the text before the last separator that is followed by a
\* name; "/" for a name directly under the root, "." for a lone relative name
pathDirname(path) ==
    IF path = <<>> THEN <<".">>
    ELSE LET named == {i \in 2..Len(path) : path[i] # "/"}
             seps == IF named = {} THEN {}
                     ELSE {i \in 2..Max(named) : path[i] = "/"}
         IN IF seps = {} THEN (IF isAbsolute(path) THEN <<"/">> ELSE <<".">>)
            ELSE SubSeq(path, 1, Max(seps) - 1)

\* the segments of the resolved path
resolvedSegs(path) == CHOOSE segs \in {NonEmptySegs(p) : p \in {Resolve(path)}} : TRUE

\* ".." for every segment of f below the common directory of f and t, then
\* the segments of t below it
relativeSegs(f, t) ==
    LET common == Max({k \in 0..Min({Len(f), Len(t)}) : SubSeq(f, 1, k) = SubSeq(t, 1, k)})
    IN JoinSegs([i \in 1..(Len(f) - common) |-> <<".", ".">>] \o SubSeq(t, common + 1, Len(t)))

\* path.relative(from, to), both resolved first
relative(from, to) ==
    CHOOSE rel \in {relativeSegs(f, t) : f \in {resolvedSegs(from)}, t \in {resolvedSegs(to)}} : TRUE

isPathLike(value) == isAbsolute(value) \/ \E i \in 1..Len(value) : value[i] \in {"/", "\\"}

isWithin(child, parent) ==
    \E rel \in {relative(parent, child)} :
        rel = <<>> \/ (~StartsWith(rel, <<".", ".">>) /\ ~isAbsolute(rel))

isSamePath(a, b) == Resolve(a) = Resolve(b)

\* fs.existsSync of a path that may be relative to the process's directory
existsFromCwd(path, dirs, files) == \E p \in {Resolve(path)} : existsSync(p, dirs, files)

\* fs.statSync(path).isDirectory()
isDirectory(path, dirs) == \E p \in {Resolve(path)} : p \in dirs

\* the error findConfigPath throws
notFound(what) == <<"Config file not found: ">> \o what

\* the directories of the model; the process runs in Cwd
ConfigDirs ==
    {<<"/">>, <<"/", "w">>, <<"/", "w", "/", "p">>, <<"/", "w", "/", "p", "/", "q">>,
     <<"/", "o">>, <<"/", "w", "/", ".", ".", "x">>}

\* where a config file may lie
ConfigPlaces ==
    {<<"/", ".mcp.json">>, <<"/", "w", "/", ".mcp.json">>,
     <<"/", "w", "/", "p", "/", ".mcp.json">>, <<"/", "o", "/", ".mcp.json">>}

CwdOptions ==
    {<<"/">>, <<"/", "w">>, <<"/", "w", "/", "p">>, <<"/", "w", "/", "p", "/", "q">>,
     <<"/", "o">>, <<"/", "w", "/", ".", ".", "x">>,
     <<".">>, <<"p">>, <<"/", "w", "/", "p", "/", ".", ".">>}

StopDirOptions == {<<"/">>, <<"/", "w">>, <<"/", "w", "/", "p">>, <<"/", "o">>}

ConfigOptions ==
    {DefaultConfig, <<"p", "/", ".mcp.json">>, <<"/", "w", "/", ".mcp.json">>,
     <<"/", "w", "/", "p">>}

InitFind ==
    /\ fsDirs = ConfigDirs
    /\ \E places \in SUBSET ConfigPlaces : fsFiles = [f \in places |-> Bytes(<<"{}">>)]
    /\ rsv = Idle
    /\ http = Idle
    /\ \E config \in ConfigOptions, cwd \in CwdOptions, stopDir \in StopDirOptions :
        pure = [op |-> "findConfigPath", pc |-> "start",
                config |-> config, cwd |-> cwd, stopDir |-> stopDir]

\* config is a path: no search
FindByPath ==
    /\ pure.op = "findConfigPath" /\ pure.pc = "start"
    /\ isPathLike(pure.config)
    /\ \E resolved \in {IF isAbsolute(pure.config) THEN pure.config
                        ELSE Resolve(pure.cwd \o <<"/">> \o pure.config)} :
        IF ~existsFromCwd(resolved, fsDirs, fsFiles)
        THEN pure' = [pc |-> "threw", message |-> notFound(resolved)] @@ pure
        ELSE IF isDirectory(resolved, fsDirs)
        THEN \E candidate \in {Join(resolved, DefaultConfig)} :
                IF ~existsFromCwd(candidate, fsDirs, fsFiles)
                THEN pure' = [pc |-> "threw", message |-> notFound(candidate)] @@ pure
                ELSE pure' = [pc |-> "returned", result |-> candidate] @@ pure
        ELSE pure' = [pc |-> "returned", result |-> resolved] @@ pure
    /\ UNCHANGED <<fsDirs, fsFiles, rsv, http>>

\* config is a bare name: the search starts at cwd.  examined and retraced
\* record the directories the loop has looked into and whether it looked
\* into one of them again; strayed whether a move led anywhere but to a
\* directory strictly above the one left.
FindBegin ==
    /\ pure.op = "findConfigPath" /\ pure.pc = "start"
    /\ ~isPathLike(pure.config)
    /\ pure' = [pc |-> "loop", root |-> rootOf(pure.cwd), dir |-> pure.cwd,
                examined |-> {}, retraced |-> FALSE, strayed |-> FALSE] @@ pure
    /\ UNCHANGED <<fsDirs, fsFiles, rsv, http>>

\* one pass through the loop
FindExamine ==
    /\ pure.op = "findConfigPath" /\ pure.pc = "loop"
    /\ \E dir \in {pure.dir} :
       \E candidate \in {Join(dir, pure.config)}, here \in {Resolve(dir)} :
       \E looked \in {[pure EXCEPT !.examined = @ \cup {here},
                                   !.retraced = @ \/ here \in pure.examined]} :
          IF existsFromCwd(candidate, fsDirs, fsFiles)
          THEN pure' = [pc |-> "returned", result |-> candidate] @@ looked
          ELSE IF \/ dir = pure.root
                  \/ isSamePath(dir, pure.stopDir)
                  \/ ~isWithin(dir, pure.stopDir)
          THEN pure' = [pc |-> "threw", message |-> notFound(pure.config)] @@ looked
          ELSE \E up \in {pathDirname(dir)} :
               \E above \in {Resolve(up)} :
                  pure' = [looked EXCEPT
                             !.dir = up,
                             !.strayed = @ \/ above \notin AncestorsAndSelf(here) \ {here}]
    /\ UNCHANGED <<fsDirs, fsFiles, rsv, http>>

NextFind ==
    \/ FindByPath
    \/ FindBegin
    \/ FindExamine

SpecFind == InitFind /\ [][NextFind]_vars

\* a call that has started keeps running
SpecFindLive == SpecFind /\ WF_vars(NextFind)

FindCall == pure.op = "findConfigPath"

FindEnded == pure.pc \in {"returned", "threw"}

\* C26: findConfigPath ends, for every cwd, stopDir and config, by returning
\* a path or throwing 'Config file not found'; the search looks into each
\* directory at most once and every move leads strictly toward the root.
C26_Terminates ==
    /\ FindCall ~> FindEnded
    /\ [](FindCall /\ pure.pc = "threw"
            => StartsWith(pure.message, <<"Config file not found: ">>))
    /\ [](FindCall /\ pure.pc \in {"loop", "returned", "threw"} /\ ~isPathLike(pure.config)
            => ~pure.retraced /\ ~pure.strayed)

\* the directories from cwd up to and including stopDir
SearchChain ==
    {d \in AncestorsAndSelf(Resolve(pure.cwd)) : Resolve(pure.stopDir) \in AncestorsAndSelf(d)}

HoldsConfig(d) == Join(d, pure.config) \in DOMAIN fsFiles

\* C27: for a bare config name and a cwd that is stopDir or below it, the
\* search looks only into cwd and its ancestors up to and including stopDir,
\* returns the candidate of the nearest of them that holds the file, and
\* throws only when none of them holds it, after looking into all of them.
C27_NearestUpToStopDir ==
    (/\ FindCall
     /\ ~isPathLike(pure.config)
     /\ pure.pc \in {"loop", "returned", "threw"}
     /\ SearchChain # {})
        => /\ pure.examined \subseteq SearchChain
           /\ pure.pc = "returned"
                => \E d \in SearchChain :
                     /\ HoldsConfig(d)
                     /\ Resolve(pure.result) = Join(d, pure.config)
                     /\ \A e \in SearchChain :
                            HoldsConfig(e) => e \in AncestorsAndSelf(d)
           /\ pure.pc = "threw"
                => /\ \A d \in SearchChain : ~HoldsConfig(d)
                   /\ pure.examined = SearchChain

====
